---------------------------- MODULE Spec2Model ----------------------------
(***************************************************************************)
(* A model of the snow-api collection pipeline:                            *)
(*   - BaseCollector.fetch_with_retry        (src/collectors/base.py)      *)
(*   - DatabaseManager.save_resort_data, get_latest_resort_data,           *)
(*     get_all_resorts_summary, get_all_resorts_data, _invalidate_cache    *)
(*                                            (src/db_manager.py)          *)
(*   - ResortDataManager.__init__, collect_resort_data,                    *)
(*     _collect_single_resort, collect_all   (src/resort_manager.py)       *)
(*   - CollectionFailureTracker.add_failure  (src/failure_tracker.py)      *)
(*                                                                         *)
(* The specifications share the variables; each leaves the variables of    *)
(* the others at their initial values:                                     *)
(*   SpecFetch, SpecStore, SpecRun, SpecStatus, SpecCollect, SpecAdmin,    *)
(*   SpecDisabledRun : fetch_with_retry, the store and its cache, runs of  *)
(*               collect_all, the status rule, one resort's collection,    *)
(*               the admin handler;                                        *)
(*   SpecNormalize : DataNormalizer.normalize on one payload;              *)
(*   SpecWebcams, SpecTrails, SpecUpsert : the webcam rows, the trail rows *)
(*               and the resort row under their writers and readers;       *)
(*   SpecApi   : the read endpoints over a database that may be down;      *)
(*   SpecProgress : the progress counter and the print lock of a run.      *)
(***************************************************************************)
EXTENDS Integers, Sequences, FiniteSets, TLC

VARIABLES
    \* ---- fetch_with_retry (one call) ----
    f_pc,          \* "loop" | "wait" | "done": position in the retry loop
    max_retries,   \* the max_retries argument of the call
    attempt,       \* the loop variable `attempt`
    f_hist,        \* outcome of every requests.get made so far, in order
    f_waits,       \* every time.sleep(wait_time) made so far, in order
    f_ret,         \* "pending" | "response" | "None": what the call returned
    \* ---- relational store and cache ----
    now,           \* the wall clock read by datetime.now()
    resorts_tbl,   \* table resorts: id -> "absent" | "enabled" | "disabled"
    conditions,    \* table resort_conditions: id -> sequence of timestamps
    weathers,      \* table resort_weather: id -> sequence of timestamps
    webcam_rows,   \* table resort_webcams: id -> sequence of timestamps
    resort_upd,    \* column resorts.updated_at: id -> timestamp (0: no row)
    cond_info,     \* columns status and extra_data.opening_date of the
                   \* resort_conditions rows, in the order of `conditions`
    cache,         \* Redis: key -> {} (absent) or {value}
    \* ---- save_resort_data (one call per resort at a time) ----
    sv_pc,         \* id -> position in save_resort_data
    sv_data,       \* id -> the normalized_data argument
    sv_pending,    \* id -> rows added to the session, not yet committed
    sv_before,     \* id -> the resort's committed rows when the call began
    sv_filled,     \* id -> a cache fill happened since the call began
    acked,         \* id -> timestamp of the last save that returned True
    n_saves,       \* number of save_resort_data calls made (SpecStore)
    \* ---- API reader (get_latest_resort_data, one thread) ----
    rd_pc,         \* "idle" | "query" | "fill" | "returned"
    rd_key,        \* the cache key of the read in progress
    rd_resort,     \* the resort the read is about
    rd_val,        \* the data assembled from the store / returned
    rd_floor,      \* acked[rd_resort] when the read began
    n_reads,       \* number of API reads made
    \* ---- ResortDataManager and collect_all ----
    use_db,        \* self.use_db after __init__
    run_pc,        \* "idle" | "running" | "returned" | "raised"
    run_no,        \* number of collect_all runs started
    run_start,     \* clock value when the current run began
    selected,      \* resorts_to_collect of the current run
    max_workers,   \* the max_workers argument of the current run
    has_tracker,   \* a failure_tracker was passed to the current run
    submitted,     \* id -> number of tasks submitted for it in this run
    w_pc,          \* id -> position of the resort's task
    w_cause,       \* id -> what went wrong in the task ("none" if nothing)
    w_data,        \* id -> the record built by collect_resort_data
    w_ret,         \* id -> what the task returned: "pending" | "data" | "error" | "raised"
    consumed,      \* tasks whose future collect_all has taken from as_completed
    completed,     \* the counter `completed` of collect_all
    results,       \* the list `results` of collect_all
    failures,      \* CollectionFailureTracker.failures
    \* ---- calculate_status_by_opening_date (one call) ----
    st_opening,    \* the opening_date_str argument
    st_original,   \* the original_status argument
    st_result,     \* "pending", or the status returned
    \* ---- disable_resort and DELETE /api/admin/resorts/{id} ----
    dis_pc,        \* "idle" | "commit" | "invalidate" | "returned" | "not_found" | "raised"
    dis_resort,    \* the resort_id argument of the call
    adm_secret,    \* the environment's ADMIN_API_KEY
    adm_header,    \* the X-Admin-API-Key header of the last admin request
    adm_resp,      \* "none" | "pending" | "200" | "401" | "404" | "500"
    n_admin,       \* number of admin requests made
    api_db,        \* api.py's db_manager is not None
    \* ---- collect_resort_data (one call) ----
    c_resort,      \* the resort of resort_config
    c_pc,          \* "primary" | "supplementary" | "weather" | "done"
    c_primary,     \* what the primary adapter's payload normalizes to
    c_secondary,   \* what the supplementary adapter's payload normalizes to
    c_data,        \* normalized_data ({}: not built yet)
    c_ret,         \* "pending" | "None" | "record" | "raised"
    c_calls,       \* the adapter calls made so far, in order
    \* ---- DataNormalizer.normalize applied to one payload ----
    nz_source,     \* the data_source argument
    nz_raw,        \* the raw_data argument
    nz_clock,      \* what datetime.now() gives
    nz_out,        \* the records returned by the applications so far
    nz_rows,       \* the ResortCondition rows built from them
    \* ---- the resort_webcams rows of one resort and the API reading them ----
    wc_rows,       \* the rows, in insertion order (the position is the id)
    wc_clock,      \* datetime.now() of the next collection
    wc_answer,     \* data['webcams'] of the last read that queried the table
    \* ---- save_trails_data and get_resort_trails for one resort ----
    tr_rows,       \* the resort_trails rows of the resort
    tr_boundary,   \* resorts.boundary
    tr_cache,      \* the keys trails:{id} and trails:{slug}
    tr_pc,         \* where the call of save_trails_data is
    tr_data,       \* its trails_data argument
    tr_before,     \* the rows and the boundary when it was called
    tr_calls,      \* calls made
    \* ---- the API process and a database that may be unreachable ----
    ap_manager,    \* api.db_manager is a DatabaseManager (FALSE: None)
    ap_up,         \* the database answers
    ap_tbl,        \* the resorts that have a row and data in the store
    ap_cache,      \* the keys present in Redis
    ap_resp,       \* the last response of a read endpoint
    \* ---- collect_all: the progress counter and the print lock ----
    pg_n,          \* len(resorts_to_collect)
    pg_w,          \* task -> where its worker thread is
    pg_lock,       \* who holds self.print_lock: {} nobody, {0} the main thread
    pg_main,       \* where the main thread is
    pg_taken,      \* the tasks as_completed has yielded
    pg_completed,  \* the counter `completed`
    pg_log,        \* the counter values printed so far
    \* ---- the row of one resort in the table resorts ----
    up_row,        \* {} when there is none, else {the row}
    up_calls,      \* calls of save_resort_data so far; the clock
    up_last        \* the last operation on the row

fetchVars == <<f_pc, max_retries, attempt, f_hist, f_waits, f_ret>>
dbVars    == <<now, resorts_tbl, conditions, weathers, webcam_rows, resort_upd, cond_info, cache>>
saveVars  == <<sv_pc, sv_data, sv_pending, sv_before, sv_filled, acked, n_saves>>
readVars  == <<rd_pc, rd_key, rd_resort, rd_val, rd_floor, n_reads>>
runVars   == <<use_db, run_pc, run_no, run_start, selected, max_workers,
               has_tracker,
               submitted, w_pc, w_cause, w_data, w_ret, consumed, completed,
               results, failures>>
statusVars  == <<st_opening, st_original, st_result>>
adminVars   == <<dis_pc, dis_resort, adm_secret, adm_header, adm_resp, n_admin,
                 api_db>>
collectVars == <<c_resort, c_pc, c_primary, c_secondary, c_data, c_ret, c_calls>>
normVars    == <<nz_source, nz_raw, nz_clock, nz_out, nz_rows>>
webcamVars  == <<wc_rows, wc_clock, wc_answer>>
trailVars   == <<tr_rows, tr_boundary, tr_cache, tr_pc, tr_data, tr_before,
                 tr_calls>>
apiVars     == <<ap_manager, ap_up, ap_tbl, ap_cache, ap_resp>>
progVars    == <<pg_n, pg_w, pg_lock, pg_main, pg_taken, pg_completed, pg_log>>
upsertVars  == <<up_row, up_calls, up_last>>
lateVars    == <<normVars, webcamVars, trailVars, apiVars, progVars, upsertVars>>
moreVars    == <<statusVars, adminVars, collectVars, lateVars>>
vars      == <<fetchVars, dbVars, saveVars, readVars, runVars, moreVars>>

-----------------------------------------------------------------------------
(* Bounds of the model *)

\* largest max_retries argument explored
MaxRetries == 3
\* save_resort_data calls explored in SpecStore
MaxSaves == 2
\* API reads explored in SpecStore
MaxReads == 2
\* collect_all runs explored in SpecRun
MaxRuns == 1
\* largest max_workers argument explored in SpecRun
MaxWorkers == 2
\* opening dates explored in SpecStatus: up to MaxDays days before and after
\* today
MaxDays == 52
\* DELETE /api/admin/resorts/{id} requests in SpecAdmin and SpecDisabledRun
MaxAdmin == 2
\* saves, reads and admin requests together in SpecAdmin
MaxAdminOps == 4
\* applications of DataNormalizer.normalize to one payload
Applications == 2
\* readings of datetime.now() during them
MaxClock == 2
\* collections that save a webcam list
MaxCollections == 3
\* tasks of one collect_all run whose progress is followed
MaxTasks == 3

-----------------------------------------------------------------------------
(* The registry (resorts_config.json) used in the model: two descriptors.   *)
(* Resort 1 is an enabled mtnpowder resort with an onthesnow_url, resort 2  *)
(* an onthesnow resort that is in the registry but not enabled.             *)

Resorts == {1, 2}

ConfigEnabled(r) == r = 1

DataSource(r) == IF r = 1 THEN "mtnpowder" ELSE "onthesnow"

HasOnTheSnowUrl(r) == r = 1

-----------------------------------------------------------------------------
(* BaseCollector.fetch_with_retry                                           *)

\* What one requests.get can produce: a response with a status code, or one
\* of the three exception classes the loop catches.
Statuses == {200, 400, 401, 403, 404, 408, 425, 429, 500, 503}

Transport == {"Timeout", "ConnectionError", "RequestException"}

Status(c) == [kind |-> "status", code |-> c]

Raised(k) == [kind |-> k, code |-> 0]

Outcomes == {Status(c) : c \in Statuses} \cup {Raised(k) : k \in Transport}

\* Faulty variant: the 404 branch is missing, a 404 is retried like any other status.
ResponseBranchRetry404(o) ==
    IF o = Status(200) THEN "return_response" ELSE "retry"

\* Faulty variant: a 4xx other than 408, 425 and 429 fails at once.
ResponseBranchFail4xx(o) ==
    IF o = Status(200) THEN "return_response"
    ELSE IF o.kind = "status" /\ o.code >= 400 /\ o.code < 500
               /\ o.code \notin {408, 425, 429}
         THEN "return_none"
         ELSE "retry"

\* The body of the try block and its except clauses: what the loop does with
\* the outcome of one request.
ResponseBranch(o) ==
    IF o = Status(200) THEN "return_response"
    ELSE IF o = Status(404) THEN "return_none"
    ELSE "retry"

\* Faulty variant: the wait does not grow with the attempt.
wait_time_flat(a) == 2

\* wait_time = (attempt + 1) * 2
wait_time(a) == (a + 1) * 2

\* One iteration of `for attempt in range(max_retries)`: the request, the
\* branch on its outcome and, when the iteration neither returns nor sleeps,
\* the step to the next iteration.
FetchAttempt(o) ==
    /\ f_pc = "loop"
    /\ attempt < max_retries
    /\ f_hist' = Append(f_hist, o)
    /\ CASE ResponseBranch(o) = "return_response" ->
              /\ f_pc' = "done"
              /\ f_ret' = "response"
              /\ UNCHANGED attempt
         [] ResponseBranch(o) = "return_none" ->
              /\ f_pc' = "done"
              /\ f_ret' = "None"
              /\ UNCHANGED attempt
         [] OTHER ->
              /\ f_ret' = f_ret
              /\ IF attempt < max_retries - 1
                 THEN f_pc' = "wait" /\ UNCHANGED attempt
                 ELSE f_pc' = "loop" /\ attempt' = attempt + 1
    /\ UNCHANGED <<max_retries, f_waits>>

\* time.sleep(wait_time) after a failed attempt that is not the last one.
FetchSleep ==
    /\ f_pc = "wait"
    /\ f_waits' = Append(f_waits, wait_time(attempt))
    /\ attempt' = attempt + 1
    /\ f_pc' = "loop"
    /\ UNCHANGED <<max_retries, f_hist, f_ret>>

\* The loop is exhausted: log and return None.
FetchExhausted ==
    /\ f_pc = "loop"
    /\ attempt >= max_retries
    /\ f_pc' = "done"
    /\ f_ret' = "None"
    /\ UNCHANGED <<max_retries, attempt, f_hist, f_waits>>

FetchIdle ==
    /\ f_pc = "done"
    /\ max_retries = 0
    /\ attempt = 0
    /\ f_hist = <<>>
    /\ f_waits = <<>>
    /\ f_ret = "None"

FetchInit ==
    /\ f_pc = "loop"
    /\ max_retries \in 0..MaxRetries
    /\ attempt = 0
    /\ f_hist = <<>>
    /\ f_waits = <<>>
    /\ f_ret = "pending"

FetchNext ==
    \/ \E o \in Outcomes : FetchAttempt(o)
    \/ FetchSleep
    \/ FetchExhausted


-----------------------------------------------------------------------------
(* The relational store and the Redis cache                                 *)

\* Cache keys: resort:{id}, resort:{slug}, resorts:all, resorts:summary,
\* trails:{id}, trails:{slug}.
KeyId(r) == [k |-> "resort_id", r |-> r]

KeySlug(r) == [k |-> "resort_slug", r |-> r]

KeyAll == [k |-> "resorts:all", r |-> 0]

KeySummary == [k |-> "resorts:summary", r |-> 0]

KeyTrailsId(r) == [k |-> "trails_id", r |-> r]

KeyTrailsSlug(r) == [k |-> "trails_slug", r |-> r]

Keys == {KeyId(r) : r \in Resorts} \cup {KeySlug(r) : r \in Resorts}
            \cup {KeyAll, KeySummary}
            \cup {KeyTrailsId(r) : r \in Resorts}
            \cup {KeyTrailsSlug(r) : r \in Resorts}

\* A cache entry is the empty set (key absent) or the singleton of the value
\* stored with setex; redis get returns None for an absent key.
Present(k) == cache[k] # {}

Cached(k) == CHOOSE v \in cache[k] : TRUE

\* The greatest timestamp of a table's rows for one resort (0: no row), which
\* is what order_by(desc(timestamp)).first() selects.
Latest(rows) ==
    IF rows = <<>> THEN 0
    ELSE CHOOSE t \in {rows[i] : i \in 1..Len(rows)} :
             \A i \in 1..Len(rows) : rows[i] <= t

\* An opening date as calculate_status_by_opening_date sees it: none (None or
\* an empty string), a string fromisoformat rejects, or a date, given by the
\* whole days from today to it (negative: in the past).
NoOpening == [kind |-> "none", days |-> 0]

BadOpening == [kind |-> "bad", days |-> 0]

OpeningIn(n) == [kind |-> "date", days |-> n]

\* The statuses the normalizers report.
ReportedStatuses == {"open", "partial", "closed"}

\* `if days_since_opening <= 50`
OpenWindowDays == 50

\* calculate_status_by_opening_date(opening_date_str, original_status), with
\* difference = (opening_date.date() - now.date()).days.
calculate_status_by_opening_date(opening, original_status) ==
    IF opening.kind = "none" THEN original_status
    ELSE IF opening.kind = "bad" THEN original_status
    ELSE LET difference == opening.days
         IN  IF difference < 0
             THEN (IF -difference <= OpenWindowDays THEN "open"
                   ELSE original_status)
             ELSE "closed"

\* The row order_by(desc(timestamp)).first() selects among the condition
\* rows of a resort that has some.
LatestCondition(r) ==
    cond_info[r][CHOOSE i \in 1..Len(conditions[r]) :
                     conditions[r][i] = Latest(conditions[r])]

\* The status both views serve: the opening-date rewrite of the latest
\* condition row's status ("none": the resort has no condition row).
ServedStatus(r) ==
    IF conditions[r] = <<>> THEN "none"
    ELSE calculate_status_by_opening_date(LatestCondition(r).opening,
                                          LatestCondition(r).status)

\* The dictionary get_latest_resort_data assembles from the store.
ResortData(r) ==
    [id |-> r,
     status |-> ServedStatus(r),
     last_update |-> Latest(conditions[r]),
     weather |-> Latest(weathers[r]),
     webcams |-> Latest(webcam_rows[r])]

\* One entry of the list get_all_resorts_summary assembles.
SummaryEntry(r) ==
    [id |-> r,
     status |-> ServedStatus(r),
     last_update |-> Latest(conditions[r]),
     weather |-> Latest(weathers[r]),
     webcams |-> 0,
     enabled |-> resorts_tbl[r] = "enabled",
     updated_at |-> resort_upd[r]]

\* session.query(Resort).filter_by(enabled=True).all()
EnabledInStore == {r \in Resorts : resorts_tbl[r] = "enabled"}

\* _invalidate_cache: the keys it deletes, in the order it deletes them.
InvalidateKeys(r) == <<KeyId(r), KeySlug(r), KeyAll>>

\* The committed rows of one resort.
RowsOf(r) ==
    <<resorts_tbl[r], conditions[r], weathers[r], webcam_rows[r],
      resort_upd[r], cond_info[r]>>

SaveIdle == {"idle", "ret_true", "ret_false", "raised"}

\* The call of save_resort_data(resort_config, normalized_data): the session
\* is taken and the try block is entered.
SaveCall(r, d) ==
    /\ sv_pc[r] \in SaveIdle
    /\ sv_pc' = [sv_pc EXCEPT ![r] = "build"]
    /\ sv_data' = [sv_data EXCEPT ![r] = d]
    /\ sv_pending' = [sv_pending EXCEPT ![r] = {}]
    /\ sv_before' = [sv_before EXCEPT ![r] = RowsOf(r)]
    /\ sv_filled' = [sv_filled EXCEPT ![r] = FALSE]

\* The except clause: session.rollback() discards the uncommitted rows and
\* the call returns False; a rollback that itself raises leaves the call by
\* an exception.
SaveExcept(r, rollback_ok) ==
    /\ sv_pc' = [sv_pc EXCEPT ![r] = IF rollback_ok THEN "ret_false" ELSE "raised"]
    /\ sv_pending' = [sv_pending EXCEPT ![r] = {}]

\* Steps 1-4: the rows the call adds to the session.  All rows of one call
\* carry the clock value read by the call.
BuiltRows(r, d) ==
    [new_resort |-> resorts_tbl[r] = "absent",
     timestamp |-> now,
     weather |-> d.weather,
     webcams |-> d.webcams,
     status |-> d.status,
     opening |-> d.opening]

\* Steps 1-4: the resort row is looked up and the new rows are added to the
\* session; nothing is committed yet.
SaveBuild(r) ==
    /\ sv_pc[r] = "build"
    /\ \/ /\ sv_pending' = [sv_pending EXCEPT ![r] = {BuiltRows(r, sv_data[r])}]
          /\ sv_pc' = [sv_pc EXCEPT ![r] = "commit"]
       \/ \E rollback_ok \in BOOLEAN : SaveExcept(r, rollback_ok)
    /\ UNCHANGED <<dbVars, sv_data, sv_before, sv_filled, acked>>

\* What session.commit() writes: the resort row when it is new (enabled as in
\* the registry, updated_at by its default) or its updated_at when it exists,
\* the condition row with its status and opening date, and the weather and
\* webcam rows when the record carries them.
CommitRows(r, p) ==
    /\ resorts_tbl' = [resorts_tbl EXCEPT ![r] =
           IF p.new_resort
           THEN (IF ConfigEnabled(r) THEN "enabled" ELSE "disabled")
           ELSE @]
    /\ conditions' = [conditions EXCEPT ![r] = Append(@, p.timestamp)]
    /\ weathers' = [weathers EXCEPT ![r] =
           IF p.weather THEN Append(@, p.timestamp) ELSE @]
    /\ webcam_rows' = [webcam_rows EXCEPT ![r] =
           IF p.webcams THEN Append(@, p.timestamp) ELSE @]
    /\ resort_upd' = [resort_upd EXCEPT ![r] = p.timestamp]
    /\ cond_info' = [cond_info EXCEPT ![r] =
           Append(@, [status |-> p.status, opening |-> p.opening])]

\* Step 5: session.commit(), or its failure.
SaveCommit(r) ==
    /\ sv_pc[r] = "commit"
    /\ \/ /\ CommitRows(r, CHOOSE p \in sv_pending[r] : TRUE)
          /\ sv_pending' = [sv_pending EXCEPT ![r] = {}]
          /\ sv_pc' = [sv_pc EXCEPT ![r] = "invalidate_1"]
       \/ /\ \E rollback_ok \in BOOLEAN : SaveExcept(r, rollback_ok)
          /\ UNCHANGED <<resorts_tbl, conditions, weathers, webcam_rows, resort_upd, cond_info>>
    /\ UNCHANGED <<now, cache, sv_data, sv_before, sv_filled, acked>>

InvalidatePc(i) ==
    IF i = 1 THEN "invalidate_1" ELSE IF i = 2 THEN "invalidate_2" ELSE "invalidate_3"

\* Step 6: the i-th redis delete of _invalidate_cache, or its failure, which
\* the except clause of save_resort_data catches after the commit.  After the
\* last delete the call returns True.
SaveInvalidate(r, i) ==
    /\ sv_pc[r] = InvalidatePc(i)
    /\ \/ /\ IF i <= Len(InvalidateKeys(r))
             THEN cache' = [cache EXCEPT ![InvalidateKeys(r)[i]] = {}]
             ELSE cache' = cache
          /\ sv_pc' = [sv_pc EXCEPT ![r] = IF i < 3 THEN InvalidatePc(i + 1) ELSE "ret_true"]
          /\ acked' = [acked EXCEPT ![r] = IF i < 3 THEN @ ELSE Latest(conditions[r])]
          /\ UNCHANGED sv_pending
       \/ /\ \E rollback_ok \in BOOLEAN : SaveExcept(r, rollback_ok)
          /\ UNCHANGED <<cache, acked>>
    /\ UNCHANGED <<now, resorts_tbl, conditions, weathers, webcam_rows, resort_upd, cond_info,
                   sv_data, sv_before, sv_filled>>

SaveStep(r) ==
    \/ SaveBuild(r)
    \/ SaveCommit(r)
    \/ \E i \in 1..3 : SaveInvalidate(r, i)

-----------------------------------------------------------------------------
(* The read path: get_latest_resort_data, get_all_resorts_summary,          *)
(* get_all_resorts_data                                                     *)

\* A cache fill is noted for every save_resort_data call in progress.
NoteFill == sv_filled' = [r \in Resorts |-> TRUE]

ReadIdle == {"idle", "returned", "raised"}

\* get_latest_resort_data(resort_id=r) or (resort_slug=slug of r): the cache
\* lookup.  A hit returns the cached value; a miss goes on to the store; a
\* failing redis get leaves the call by an exception.
ReadLookup(r, by_slug) ==
    /\ rd_pc \in ReadIdle
    /\ n_reads < MaxReads
    /\ n_reads' = n_reads + 1
    /\ rd_resort' = r
    /\ rd_key' = (IF by_slug THEN KeySlug(r) ELSE KeyId(r))
    /\ rd_floor' = acked[r]
    /\ \/ /\ Present(rd_key')
          /\ rd_val' = cache[rd_key']
          /\ rd_pc' = "returned"
       \/ /\ ~Present(rd_key')
          /\ rd_val' = {}
          /\ rd_pc' = "query"
       \/ /\ rd_val' = {}
          /\ rd_pc' = "raised"
    /\ UNCHANGED <<dbVars, sv_filled>>

\* The queries of the try block: no resort row returns None without filling
\* the cache, otherwise the data is assembled from the latest rows; a failing
\* query is caught and returns None.
ReadQuery ==
    /\ rd_pc = "query"
    /\ \/ /\ resorts_tbl[rd_resort] = "absent"
          /\ rd_val' = {}
          /\ rd_pc' = "returned"
       \/ /\ resorts_tbl[rd_resort] # "absent"
          /\ rd_val' = {ResortData(rd_resort)}
          /\ rd_pc' = "fill"
       \/ /\ rd_val' = {}
          /\ rd_pc' = "returned"
    /\ UNCHANGED <<rd_key, rd_resort, rd_floor, n_reads, dbVars, sv_filled>>

\* redis setex(cache_key, cache_ttl, json.dumps(data)) and the return of the
\* data; a failing setex is caught and returns None.
ReadFill ==
    /\ rd_pc = "fill"
    /\ rd_pc' = "returned"
    /\ \/ /\ cache' = [cache EXCEPT ![rd_key] = rd_val]
          /\ NoteFill
          /\ UNCHANGED rd_val
       \/ /\ rd_val' = {}
          /\ UNCHANGED <<cache, sv_filled>>
    /\ UNCHANGED <<rd_key, rd_resort, rd_floor, n_reads, now, resorts_tbl,
                   conditions, weathers, webcam_rows, resort_upd, cond_info>>

\* get_all_resorts_summary on a cache miss: the enabled resorts are queried
\* and the list is stored under resorts:summary.  (On a hit the call changes
\* nothing.)
ReadSummary ==
    /\ rd_pc \in ReadIdle
    /\ n_reads < MaxReads
    /\ ~Present(KeySummary)
    /\ n_reads' = n_reads + 1
    /\ cache' = [cache EXCEPT ![KeySummary] =
                    {{SummaryEntry(r) : r \in EnabledInStore}}]
    /\ NoteFill
    /\ UNCHANGED <<rd_pc, rd_key, rd_resort, rd_val, rd_floor, now,
                   resorts_tbl, conditions, weathers, webcam_rows, resort_upd, cond_info>>

\* What get_all_resorts_data obtains for one resort from the nested
\* get_latest_resort_data(resort_id=r): the cached value on a hit, the
\* store's data on a miss.
NestedData(r) == IF Present(KeyId(r)) THEN Cached(KeyId(r)) ELSE ResortData(r)

\* get_all_resorts_data on a cache miss: every enabled resort is read through
\* get_latest_resort_data, which fills resort:{id}, and the list is stored
\* under resorts:all.
ReadAll ==
    /\ rd_pc \in ReadIdle
    /\ n_reads < MaxReads
    /\ ~Present(KeyAll)
    /\ n_reads' = n_reads + 1
    /\ cache' = [k \in Keys |->
                    IF k = KeyAll
                    THEN {{NestedData(r) : r \in EnabledInStore}}
                    ELSE IF k.k = "resort_id" /\ k.r \in EnabledInStore
                         THEN {NestedData(k.r)}
                         ELSE cache[k]]
    /\ NoteFill
    /\ UNCHANGED <<rd_pc, rd_key, rd_resort, rd_val, rd_floor, now,
                   resorts_tbl, conditions, weathers, webcam_rows, resort_upd, cond_info>>

\* A key's TTL runs out.
Expire(k) ==
    /\ Present(k)
    /\ cache' = [cache EXCEPT ![k] = {}]
    /\ UNCHANGED <<now, resorts_tbl, conditions, weathers, webcam_rows, resort_upd, cond_info,
                   sv_filled, readVars>>

-----------------------------------------------------------------------------
(* What the read handlers answer in a state                                 *)

\* get_latest_resort_data(resort_id=r) or (resort_slug=slug of r) when every
\* call succeeds: the cached value on a hit, None (the empty set, which the
\* handler turns into 404) when the store has no resort row, otherwise the
\* data assembled from the store.  The query does not look at enabled.
DetailAnswer(r, by_slug) ==
    LET key == IF by_slug THEN KeySlug(r) ELSE KeyId(r)
    IN  IF Present(key) THEN cache[key]
        ELSE IF resorts_tbl[r] = "absent" THEN {}
        ELSE {ResortData(r)}

\* get_all_resorts_summary when every call succeeds.
SummaryAnswer ==
    IF Present(KeySummary) THEN Cached(KeySummary)
    ELSE {SummaryEntry(r) : r \in EnabledInStore}

\* get_all_resorts_data when every call succeeds.
AllAnswer ==
    IF Present(KeyAll) THEN Cached(KeyAll)
    ELSE {NestedData(r) : r \in EnabledInStore}

-----------------------------------------------------------------------------
(* disable_resort and DELETE /api/admin/resorts/{id}                        *)

AdminSecrets == {"unset", "", "k1"}

AdminHeaders == {"absent", "", "k1", "k2"}

\* Faulty variant: the header is only compared with the secret.
verify_compare_only(api_key, expected_key) == api_key = expected_key

\* verify_admin_api_key: request.headers.get gives None for an absent header
\* and os.getenv gives None for an unset variable; `not x` also rejects the
\* empty string.
verify_admin_api_key(api_key, expected_key) ==
    IF expected_key \in {"unset", ""} THEN FALSE
    ELSE IF api_key \in {"absent", ""} THEN FALSE
    ELSE api_key = expected_key

\* The keys _invalidate_cache and _invalidate_trails_cache delete for
\* disable_resort, in the order they are deleted.
DisableKeys(r) ==
    <<KeyId(r), KeySlug(r), KeyAll, KeyTrailsId(r), KeyTrailsSlug(r)>>

\* The cache after the first n of these deletes.
AfterDisableDeletes(r, n) ==
    [k \in Keys |->
        IF \E i \in 1..n : DisableKeys(r)[i] = k THEN {} ELSE cache[k]]

AdminDone == {"none", "200", "401", "404", "500"}

\* admin_delete_resort up to the call of disable_resort: 401 when the key is
\* not verified, 500 without a db_manager, otherwise disable_resort(r) is
\* entered.
AdminRequest(r, header) ==
    /\ adm_resp \in AdminDone
    /\ n_admin < MaxAdmin
    /\ n_admin' = n_admin + 1
    /\ adm_header' = header
    /\ IF ~verify_admin_api_key(header, adm_secret)
       THEN adm_resp' = "401" /\ UNCHANGED <<dis_pc, dis_resort>>
       ELSE IF ~api_db
       THEN adm_resp' = "500" /\ UNCHANGED <<dis_pc, dis_resort>>
       ELSE adm_resp' = "pending" /\ dis_pc' = "commit" /\ dis_resort' = r
    /\ UNCHANGED <<adm_secret, api_db, dbVars>>

\* Faulty variant: the rows of the resort are removed, as delete_resort does.
DisableWritesDeleting(r) ==
    /\ resorts_tbl' = [resorts_tbl EXCEPT ![r] = "disabled"]
    /\ resort_upd' = [resort_upd EXCEPT ![r] = now]
    /\ conditions' = [conditions EXCEPT ![r] = <<>>]
    /\ cond_info' = [cond_info EXCEPT ![r] = <<>>]
    /\ weathers' = [weathers EXCEPT ![r] = <<>>]
    /\ webcam_rows' = [webcam_rows EXCEPT ![r] = <<>>]

\* What the commit of disable_resort writes: resort.enabled = False, and
\* with it updated_at, whose onupdate=datetime.now fires on the UPDATE.  No
\* UPDATE is issued when the flag was False already.
DisableWrites(r) ==
    /\ resorts_tbl' = [resorts_tbl EXCEPT ![r] = "disabled"]
    /\ resort_upd' = [resort_upd EXCEPT ![r] =
           IF resorts_tbl[r] = "enabled" THEN now ELSE @]
    /\ UNCHANGED <<conditions, cond_info, weathers, webcam_rows>>

\* disable_resort from the lookup to the commit.  No row: ValueError, which
\* the handler answers with 404.  A failing lookup or commit: rollback and
\* the exception, which the handler answers with 500.
DisableCommit ==
    /\ dis_pc = "commit"
    /\ \/ /\ resorts_tbl[dis_resort] = "absent"
          /\ dis_pc' = "not_found"
          /\ adm_resp' = "404"
          /\ UNCHANGED dbVars
       \/ /\ resorts_tbl[dis_resort] # "absent"
          /\ dis_pc' = "invalidate"
          /\ now' = now + 1
          /\ DisableWrites(dis_resort)
          /\ UNCHANGED <<cache, adm_resp>>
       \/ /\ dis_pc' = "raised"
          /\ adm_resp' = "500"
          /\ UNCHANGED dbVars
    /\ UNCHANGED <<dis_resort, adm_secret, adm_header, n_admin, api_db>>

\* The five redis deletes after the commit: n of them succeed; all five and
\* the call returns (200), fewer and the redis error leaves the call after
\* a rollback that undoes nothing (500).
DisableInvalidate ==
    /\ dis_pc = "invalidate"
    /\ \E n \in 0..Len(DisableKeys(dis_resort)) :
          /\ cache' = AfterDisableDeletes(dis_resort, n)
          /\ IF n = Len(DisableKeys(dis_resort))
             THEN dis_pc' = "returned" /\ adm_resp' = "200"
             ELSE dis_pc' = "raised" /\ adm_resp' = "500"
    /\ UNCHANGED <<now, resorts_tbl, conditions, weathers, webcam_rows,
                   resort_upd, cond_info,
                   dis_resort, adm_secret, adm_header, n_admin, api_db>>

\* The direct flip that reverses a soft-disable:
\* UPDATE resorts SET enabled = true WHERE id = r.
EnableFlip(r) ==
    /\ resorts_tbl[r] = "disabled"
    /\ resorts_tbl' = [resorts_tbl EXCEPT ![r] = "enabled"]
    /\ UNCHANGED <<now, conditions, weathers, webcam_rows, resort_upd,
                   cond_info, cache>>

-----------------------------------------------------------------------------
(* Initial values *)

DbInit ==
    /\ now = 1
    /\ resorts_tbl = [r \in Resorts |-> "absent"]
    /\ conditions = [r \in Resorts |-> <<>>]
    /\ weathers = [r \in Resorts |-> <<>>]
    /\ webcam_rows = [r \in Resorts |-> <<>>]
    /\ resort_upd = [r \in Resorts |-> 0]
    /\ cond_info = [r \in Resorts |-> <<>>]
    /\ cache = [k \in Keys |-> {}]

\* A record without weather block and webcams, reported open, without an
\* opening date.
NoData ==
    [weather |-> FALSE, webcams |-> FALSE, status |-> "open",
     opening |-> NoOpening]

\* The opening dates of the records written in the model: none, yesterday,
\* tomorrow.
RecordOpenings == {NoOpening, OpeningIn(-1), OpeningIn(1)}

\* The records a collection can hand to save_resort_data: with or without a
\* weather block, with or without webcams, with a status and possibly an
\* opening date.
Records ==
    [weather : BOOLEAN, webcams : BOOLEAN, status : ReportedStatuses,
     opening : RecordOpenings]

SaveInit ==
    /\ sv_pc = [r \in Resorts |-> "idle"]
    /\ sv_data = [r \in Resorts |-> NoData]
    /\ sv_pending = [r \in Resorts |-> {}]
    /\ sv_before = [r \in Resorts |-> <<"absent", <<>>, <<>>, <<>>, 0, <<>>>>]
    /\ sv_filled = [r \in Resorts |-> FALSE]
    /\ acked = [r \in Resorts |-> 0]
    /\ n_saves = 0

ReadInit ==
    /\ rd_pc = "idle"
    /\ rd_key = KeyAll
    /\ rd_resort = 1
    /\ rd_val = {}
    /\ rd_floor = 0
    /\ n_reads = 0

RunIdle ==
    /\ run_pc = "idle"
    /\ run_no = 0
    /\ run_start = 0
    /\ selected = {}
    /\ max_workers = 0
    /\ has_tracker = FALSE
    /\ submitted = [r \in Resorts |-> 0]
    /\ w_pc = [r \in Resorts |-> "none"]
    /\ w_cause = [r \in Resorts |-> "none"]
    /\ w_data = [r \in Resorts |-> NoData]
    /\ w_ret = [r \in Resorts |-> "pending"]
    /\ consumed = {}
    /\ completed = 0
    /\ results = <<>>
    /\ failures = <<>>

StatusIdle ==
    /\ st_opening = NoOpening
    /\ st_original = "closed"
    /\ st_result = "closed"

AdminIdle ==
    /\ dis_pc = "idle"
    /\ dis_resort = 1
    /\ adm_secret = "unset"
    /\ adm_header = "absent"
    /\ adm_resp = "none"
    /\ n_admin = 0
    /\ api_db = TRUE

CollectIdle ==
    /\ c_resort = 1
    /\ c_pc = "done"
    /\ c_primary = {}
    /\ c_secondary = {}
    /\ c_data = {}
    /\ c_ret = "None"
    /\ c_calls = <<>>

NormIdle ==
    /\ nz_source = "none"
    /\ nz_raw = {}
    /\ nz_clock = 0
    /\ nz_out = <<>>
    /\ nz_rows = <<>>

WebcamIdle ==
    /\ wc_rows = <<>>
    /\ wc_clock = 1
    /\ wc_answer = {}

TrailKeys == {"trails_id", "trails_slug"}

TrailsIdle ==
    /\ tr_rows = {}
    /\ tr_boundary = "none"
    /\ tr_cache = [k \in TrailKeys |-> {}]
    /\ tr_pc = "idle"
    /\ tr_data = [trails |-> {}, boundary |-> "none"]
    /\ tr_before = [rows |-> {}, boundary |-> "none"]
    /\ tr_calls = 0

NoResponse ==
    [endpoint |-> "none", resort |-> 0, status |-> 0, body |-> "none",
     db_up |-> TRUE]

ApiIdle ==
    /\ ap_manager = TRUE
    /\ ap_up = TRUE
    /\ ap_tbl = {}
    /\ ap_cache = {}
    /\ ap_resp = NoResponse

ProgressIdle ==
    /\ pg_n = 0
    /\ pg_w = <<>>
    /\ pg_lock = {}
    /\ pg_main = "idle"
    /\ pg_taken = {}
    /\ pg_completed = 0
    /\ pg_log = <<>>

NoOperation == [op |-> "none", existed |-> FALSE, failed |-> FALSE]

UpsertIdle ==
    /\ up_row = {}
    /\ up_calls = 0
    /\ up_last = NoOperation

LateIdle ==
    /\ NormIdle /\ WebcamIdle /\ TrailsIdle /\ ApiIdle /\ ProgressIdle
    /\ UpsertIdle

-----------------------------------------------------------------------------
(* SpecFetch: one call of fetch_with_retry *)

InitFetch ==
    /\ FetchInit /\ DbInit /\ SaveInit /\ ReadInit /\ RunIdle /\ use_db = TRUE
    /\ StatusIdle /\ AdminIdle /\ CollectIdle /\ LateIdle

NextFetch ==
    FetchNext /\ UNCHANGED <<dbVars, saveVars, readVars, runVars, moreVars>>

SpecFetch == InitFetch /\ [][NextFetch]_vars

-----------------------------------------------------------------------------
(* SpecStore: one thread calling save_resort_data, as test_collect_and_save *)
(* does, one API thread reading, and key expiry.                            *)

\* The resort written and read in SpecStore: the enabled one.
StoreResorts == {r \in Resorts : ConfigEnabled(r)}

\* The records written in SpecStore: bare, or with weather and webcams, all
\* reported open without an opening date.
StoreRecords ==
    {d \in Records :
        d.weather = d.webcams /\ d.status = "open" /\ d.opening = NoOpening}

othersOfStore == <<fetchVars, runVars, moreVars>>

StoreSaveCall(r, d) ==
    /\ n_saves < MaxSaves
    /\ \A q \in Resorts : sv_pc[q] \in SaveIdle
    /\ n_saves' = n_saves + 1
    /\ now' = now + 1
    /\ SaveCall(r, d)
    /\ UNCHANGED <<resorts_tbl, conditions, weathers, webcam_rows, resort_upd, cond_info, cache,
                   acked, readVars, othersOfStore>>

StoreSaveStep(r) ==
    /\ SaveStep(r)
    /\ UNCHANGED <<n_saves, readVars, othersOfStore>>

saveFrame == <<sv_pc, sv_data, sv_pending, sv_before, acked, n_saves>>

StoreReadLookup(r, by_slug) ==
    ReadLookup(r, by_slug) /\ UNCHANGED <<saveFrame, othersOfStore>>

StoreReadQuery == ReadQuery /\ UNCHANGED <<saveFrame, othersOfStore>>

StoreReadFill == ReadFill /\ UNCHANGED <<saveFrame, othersOfStore>>

StoreReadSummary == ReadSummary /\ UNCHANGED <<saveFrame, othersOfStore>>

StoreReadAll == ReadAll /\ UNCHANGED <<saveFrame, othersOfStore>>

StoreExpire(k) == Expire(k) /\ UNCHANGED <<saveFrame, othersOfStore>>

InitStore ==
    /\ FetchIdle /\ DbInit /\ SaveInit /\ ReadInit /\ RunIdle /\ use_db = TRUE
    /\ StatusIdle /\ AdminIdle /\ CollectIdle /\ LateIdle

NextStore ==
    \/ \E r \in StoreResorts, d \in StoreRecords : StoreSaveCall(r, d)
    \/ \E r \in StoreResorts : StoreSaveStep(r)
    \/ \E r \in StoreResorts, by_slug \in BOOLEAN : StoreReadLookup(r, by_slug)
    \/ StoreReadQuery
    \/ StoreReadFill
    \/ StoreReadSummary
    \/ StoreReadAll
    \/ \E k \in Keys : StoreExpire(k)

SpecStore == InitStore /\ [][NextStore]_vars

-----------------------------------------------------------------------------
(* save_resort_data as one step, for the collection run                     *)

\* The cache after the first n deletes of _invalidate_cache.
AfterDeletes(r, n) ==
    [k \in Keys |->
        IF \E i \in 1..n : i <= Len(InvalidateKeys(r)) /\ InvalidateKeys(r)[i] = k
        THEN {}
        ELSE cache[k]]

\* Where a call of save_resort_data can fail: nowhere, while the rows are
\* built, at the commit, or at one of the three redis deletes.
SaveFailPoints == {"none", "build", "commit", "delete_1", "delete_2", "delete_3"}

DeletesDone(fp) ==
    CASE fp = "none" -> 3
      [] fp = "delete_3" -> 2
      [] fp = "delete_2" -> 1
      [] OTHER -> 0

\* What the call returns: True without a failure, False from the except
\* clause, or the exception of a rollback that fails in the except clause.
SaveReturn(fp, rollback_ok) ==
    IF fp = "none" THEN "ret_true"
    ELSE IF rollback_ok THEN "ret_false" ELSE "raised"

\* A whole call of save_resort_data(r, d) failing at fp: the rows are
\* committed unless the failure comes before the end of the commit, and the
\* deletes made before the failure have taken effect.
SaveWhole(r, d, fp) ==
    /\ IF fp \in {"build", "commit"}
       THEN UNCHANGED <<resorts_tbl, conditions, weathers, webcam_rows, resort_upd, cond_info>>
       ELSE CommitRows(r, BuiltRows(r, d))
    /\ cache' = AfterDeletes(r, DeletesDone(fp))

-----------------------------------------------------------------------------
(* The adapters, as far as the worker sees them                             *)

\* What the primary URL of a resort can do during one collect():
\*   ok               200 with a body the adapter can decode
\*   HTTP_404         404
\*   TIMEOUT          every attempt times out
\*   CONNECTION_ERROR every attempt fails in the transport
\*   HTTP_OTHER       every attempt is answered 503
\*   JSON_ERROR       200 with a body that is not JSON
\*   NO_DATA          200 with a page without the __NEXT_DATA__ island
Upstream(src) ==
    {"ok", "HTTP_404", "TIMEOUT", "CONNECTION_ERROR", "HTTP_OTHER", "JSON_ERROR"}
        \cup (IF src = "onthesnow" THEN {"NO_DATA"} ELSE {})

\* The outcome of the a-th request (from 0) under an upstream behaviour.
Wire(up, a) ==
    CASE up = "HTTP_404" -> Status(404)
      [] up = "TIMEOUT" -> Raised("Timeout")
      [] up = "CONNECTION_ERROR" -> Raised("ConnectionError")
      [] up = "HTTP_OTHER" -> Status(503)
      [] OTHER -> Status(200)

\* The value fetch_with_retry returns when the a-th and later requests are
\* answered as `up` says: the loop of FetchAttempt and FetchExhausted.
RECURSIVE FetchLoop(_, _, _)
FetchLoop(up, a, max) ==
    IF a >= max THEN "None"
    ELSE CASE ResponseBranch(Wire(up, a)) = "return_response" -> "response"
           [] ResponseBranch(Wire(up, a)) = "return_none" -> "None"
           [] OTHER -> FetchLoop(up, a + 1, max)

\* The collectors call fetch_with_retry(url, max_retries=3, ...).
CollectorRetries == 3

\* MtnPowderCollector.collect / OnTheSnowCollector.collect: None when the
\* fetch returns None, when the body does not decode, or (onthesnow) when
\* the island is missing; the raw data otherwise.
CollectReturns(src, up) ==
    IF FetchLoop(up, 0, CollectorRetries) = "None" THEN "None"
    ELSE IF up = "JSON_ERROR" THEN "None"
    ELSE IF src = "onthesnow" /\ up = "NO_DATA" THEN "None"
    ELSE "data"

-----------------------------------------------------------------------------
(* CollectionFailureTracker and the worker _collect_single_resort           *)

\* Faulty variant: the append overwrites the last entry of the list.
add_failure_overwrite(led, r, error_type) ==
    IF led = <<>> THEN <<[resort_id |-> r, error_type |-> error_type]>>
    ELSE [led EXCEPT ![Len(led)] = [resort_id |-> r, error_type |-> error_type]]

\* CollectionFailureTracker.add_failure: one list.append, atomic under the
\* interpreter lock.
add_failure(led, r, error_type) ==
    Append(led, [resort_id |-> r, error_type |-> error_type])

\* `if failure_tracker: failure_tracker.add_failure(...)`
Record(r, error_type) ==
    IF has_tracker THEN add_failure(failures, r, error_type) ELSE failures

\* str(e) of an exception, as the substrings the except clause looks for.
Tokens == {"404", "timeout", "connection", "json"}

Messages == SUBSET Tokens

\* The error type the except clause derives from str(e).
Classify(msg) ==
    IF "404" \in msg THEN "HTTP_404"
    ELSE IF "timeout" \in msg THEN "TIMEOUT"
    ELSE IF "connection" \in msg THEN "CONNECTION_ERROR"
    ELSE IF "json" \in msg THEN "JSON_ERROR"
    ELSE "UNKNOWN"

\* Faulty variant: the worker has no except clause, the exception leaves it.
OnExceptionPropagate(r, msg) ==
    /\ failures' = failures
    /\ w_ret' = [w_ret EXCEPT ![r] = "raised"]
    /\ w_cause' = [w_cause EXCEPT ![r] = "exception"]
    /\ w_pc' = [w_pc EXCEPT ![r] = "done"]

\* `except Exception as e`: the failure is classified and recorded, and the
\* worker returns (None, str(e)).
OnException(r, msg) ==
    /\ failures' = Record(r, Classify(msg))
    /\ w_ret' = [w_ret EXCEPT ![r] = "error"]
    /\ w_cause' = [w_cause EXCEPT ![r] = "exception"]
    /\ w_pc' = [w_pc EXCEPT ![r] = "done"]

\* The worker returns (None, error_type) after recording the failure.
ReturnError(r, error_type, cause) ==
    /\ failures' = Record(r, error_type)
    /\ w_ret' = [w_ret EXCEPT ![r] = "error"]
    /\ w_cause' = [w_cause EXCEPT ![r] = cause]
    /\ w_pc' = [w_pc EXCEPT ![r] = "done"]

\* Faulty variant: a failed save is reported as a success.
ReturnDataAlways(r, saved) ==
    /\ w_ret' = [w_ret EXCEPT ![r] = "data"]
    /\ w_pc' = [w_pc EXCEPT ![r] = "done"]
    /\ UNCHANGED <<failures, w_cause>>

\* What the worker does with the value save_resort_data returned.
AfterSave(r, saved) ==
    IF saved = "ret_true"
    THEN /\ w_ret' = [w_ret EXCEPT ![r] = "data"]
         /\ w_pc' = [w_pc EXCEPT ![r] = "done"]
         /\ UNCHANGED <<failures, w_cause>>
    ELSE IF saved = "ret_false"
    THEN ReturnError(r, "DATABASE_SAVE_FAILED", "DATABASE_SAVE_FAILED")
    ELSE \E msg \in Messages : OnException(r, msg)

\* The tasks a pool thread is running.
Active == {r \in Resorts : w_pc[r] \in {"primary", "supplementary", "weather", "save"}}

workerFrame == <<use_db, run_pc, run_no, run_start, selected, max_workers,
                 has_tracker, submitted, consumed, completed, results>>

\* A pool thread takes the task from the executor's queue.
WorkerStart(r) ==
    /\ w_pc[r] = "queued"
    /\ Cardinality(Active) < max_workers
    /\ w_pc' = [w_pc EXCEPT ![r] = "primary"]
    /\ UNCHANGED <<w_cause, w_data, w_ret, failures, workerFrame, dbVars>>

\* collect_resort_data, step 1: the primary adapter and the normalization of
\* its payload.  No data ends the task with NO_DATA; an exception (an
\* unsupported data_source, a payload the normalizer cannot process) goes to
\* the worker's except clause.
WorkerPrimary(r) ==
    /\ w_pc[r] = "primary"
    /\ \/ \E up \in Upstream(DataSource(r)) :
             IF CollectReturns(DataSource(r), up) = "data"
             THEN /\ w_pc' = [w_pc EXCEPT ![r] =
                         IF HasOnTheSnowUrl(r) /\ DataSource(r) # "onthesnow"
                         THEN "supplementary" ELSE "weather"]
                  /\ UNCHANGED <<w_cause, w_ret, failures>>
             ELSE ReturnError(r, "NO_DATA", up)
       \/ \E msg \in Messages : OnException(r, msg)
    /\ w_data' = [w_data EXCEPT ![r] = NoData]
    /\ UNCHANGED <<workerFrame, dbVars>>

\* Step 2: the supplementary adapter; its webcams are merged when it returns
\* data, and a failure of the step (no data, or an exception caught inside
\* collect_resort_data) leaves the record as it is.
WorkerSupplementary(r) ==
    /\ w_pc[r] = "supplementary"
    /\ \E got \in BOOLEAN : w_data' = [w_data EXCEPT ![r].webcams = got]
    /\ w_pc' = [w_pc EXCEPT ![r] = "weather"]
    /\ UNCHANGED <<w_cause, w_ret, failures, workerFrame, dbVars>>

\* Step 3: the weather adapter; the weather block is attached when it returns
\* data.  The normalization of the weather payload is not guarded: its
\* exception goes to the worker's except clause.
WorkerWeather(r) ==
    /\ w_pc[r] = "weather"
    /\ \/ /\ \E got \in BOOLEAN : w_data' = [w_data EXCEPT ![r].weather = got]
          /\ w_pc' = [w_pc EXCEPT ![r] = "save"]
          /\ UNCHANGED <<w_cause, w_ret, failures>>
       \/ /\ \E msg \in Messages : OnException(r, msg)
          /\ w_data' = [w_data EXCEPT ![r] = NoData]
    /\ UNCHANGED <<workerFrame, dbVars>>

\* The rest of _collect_single_resort with a record in hand: with a database
\* the record is saved and the task succeeds only if the save returned True;
\* without one the task succeeds at once.  The local record is gone when the
\* task has returned.
WorkerSave(r) ==
    /\ w_pc[r] = "save"
    /\ \/ /\ use_db
          /\ \E fp \in SaveFailPoints, rollback_ok \in BOOLEAN :
                /\ fp = "none" => rollback_ok
                /\ SaveWhole(r, w_data[r], fp)
                /\ AfterSave(r, SaveReturn(fp, rollback_ok))
                /\ UNCHANGED now
       \/ /\ ~use_db
          /\ w_ret' = [w_ret EXCEPT ![r] = "data"]
          /\ w_pc' = [w_pc EXCEPT ![r] = "done"]
          /\ UNCHANGED <<failures, w_cause, dbVars>>
    /\ w_data' = [w_data EXCEPT ![r] = NoData]
    /\ UNCHANGED workerFrame

-----------------------------------------------------------------------------
(* collect_all                                                              *)

\* resorts_to_collect
Selected(enabled_only) == {r \in Resorts : ~enabled_only \/ ConfigEnabled(r)}

\* The submit loop: one future per element of resorts_to_collect.
TasksFor(sel) == [r \in Resorts |-> IF r \in sel THEN 1 ELSE 0]

\* The call of collect_all up to the end of the submit loop: one task per
\* selected resort.  The caller passes a fresh failure tracker or none; the
\* clock has moved on since the previous run.
RunStart(enabled_only, mw, tracker) ==
    /\ run_pc \in {"idle", "returned", "raised"}
    /\ run_no < MaxRuns
    /\ run_no' = run_no + 1
    /\ run_pc' = "running"
    /\ now' = now + 1
    /\ run_start' = now'
    /\ selected' = Selected(enabled_only)
    /\ max_workers' = mw
    /\ has_tracker' = tracker
    /\ submitted' = TasksFor(selected')
    /\ w_pc' = [r \in Resorts |-> IF submitted'[r] > 0 THEN "queued" ELSE "none"]
    /\ w_cause' = [r \in Resorts |-> "none"]
    /\ w_data' = [r \in Resorts |-> NoData]
    /\ w_ret' = [r \in Resorts |-> "pending"]
    /\ consumed' = {}
    /\ completed' = 0
    /\ results' = <<>>
    /\ failures' = <<>>
    /\ UNCHANGED <<use_db, resorts_tbl, conditions, weathers, webcam_rows, resort_upd, cond_info, cache>>

\* One iteration of `for future in as_completed(...)`: a finished task is
\* taken, the counter is advanced and future.result() is unpacked; the
\* record, if any, is appended.  A task that ended by an exception makes
\* future.result() raise, which ends collect_all by that exception.
RunTake(r) ==
    /\ run_pc = "running"
    /\ w_pc[r] = "done"
    /\ r \notin consumed
    /\ consumed' = consumed \cup {r}
    /\ completed' = completed + 1
    /\ results' = IF w_ret[r] = "data" THEN Append(results, r) ELSE results
    /\ run_pc' = IF w_ret[r] = "raised" THEN "raised" ELSE run_pc
    /\ UNCHANGED <<use_db, run_no, run_start, selected, max_workers, has_tracker,
                   submitted, w_pc, w_cause, w_data, w_ret, failures, dbVars>>

\* Faulty variant: the loop ends with the first future taken.
JoinedFirst == consumed # {}

\* as_completed is exhausted: every submitted future has been taken.
Joined == \A r \in Resorts : submitted[r] > 0 => r \in consumed

\* The end of the with block and `return results`.
RunReturn ==
    /\ run_pc = "running"
    /\ Joined
    /\ run_pc' = "returned"
    /\ UNCHANGED <<use_db, run_no, run_start, selected, max_workers, has_tracker,
                   submitted, w_pc, w_cause, w_data, w_ret, consumed, completed,
                   results, failures, dbVars>>

-----------------------------------------------------------------------------
(* SpecRun: runs of collect_all by one ResortDataManager                    *)

othersOfRun == <<fetchVars, saveVars, readVars, moreVars>>

\* ResortDataManager(): use_db stays True when DatabaseManager() can be
\* built and is set to False when its construction raises.
InitRun ==
    /\ FetchIdle /\ DbInit /\ SaveInit /\ ReadInit /\ RunIdle
    /\ use_db \in BOOLEAN
    /\ StatusIdle /\ AdminIdle /\ CollectIdle /\ LateIdle

NextRun ==
    \/ \E enabled_only \in BOOLEAN, mw \in 1..MaxWorkers, tracker \in BOOLEAN :
          RunStart(enabled_only, mw, tracker) /\ UNCHANGED othersOfRun
    \/ \E r \in Resorts : WorkerStart(r) /\ UNCHANGED othersOfRun
    \/ \E r \in Resorts : WorkerPrimary(r) /\ UNCHANGED othersOfRun
    \/ \E r \in Resorts : WorkerSupplementary(r) /\ UNCHANGED othersOfRun
    \/ \E r \in Resorts : WorkerWeather(r) /\ UNCHANGED othersOfRun
    \/ \E r \in Resorts : WorkerSave(r) /\ UNCHANGED othersOfRun
    \/ \E r \in Resorts : RunTake(r) /\ UNCHANGED othersOfRun
    \/ RunReturn /\ UNCHANGED othersOfRun

SpecRun == InitRun /\ [][NextRun]_vars

-----------------------------------------------------------------------------
(* SpecStatus: one call of calculate_status_by_opening_date                 *)

\* The opening dates explored: none, unparseable, and every date from
\* MaxDays days ago to MaxDays days ahead.
OpeningInputs ==
    {NoOpening, BadOpening} \cup {OpeningIn(n) : n \in (0 - MaxDays)..MaxDays}

\* The call returns.
Calculate ==
    /\ st_result = "pending"
    /\ st_result' = calculate_status_by_opening_date(st_opening, st_original)
    /\ UNCHANGED <<st_opening, st_original>>

InitStatus ==
    /\ FetchIdle /\ DbInit /\ SaveInit /\ ReadInit /\ RunIdle /\ use_db = TRUE
    /\ AdminIdle /\ CollectIdle /\ LateIdle
    /\ st_opening \in OpeningInputs
    /\ st_original \in ReportedStatuses
    /\ st_result = "pending"

NextStatus ==
    Calculate
        /\ UNCHANGED <<fetchVars, dbVars, saveVars, readVars, runVars,
                       adminVars, collectVars, lateVars>>

SpecStatus == InitStatus /\ [][NextStatus]_vars

-----------------------------------------------------------------------------
(* SpecCollect: one call of collect_resort_data(resort_config)              *)

\* What _normalize_mtnpowder can return, as far as the merge is concerned:
\* the canonical fields, the trail counts (0 when the feed has none), no
\* webcams key.
MtnPowderRecords ==
    {d \in [status : {"open", "partial", "closed"}, new_snow : {0},
            base_depth : {0},
            lifts_open : {0, 2}, lifts_total : {4}, temperature : {0},
            trails_open : {0, 5}, trails_total : {0, 40},
            webcams : {"absent"}, weather : {"absent"}] :
        /\ d.status = "open" => d.lifts_open > 0
        /\ d.status = "partial" => d.lifts_open = 0}

\* What _normalize_onthesnow can return: its own values of the canonical
\* fields, the trail counts (0 for none), and always a webcams list, which
\* may be empty.
OnTheSnowRecords ==
    [status : {"closed"}, new_snow : {3}, base_depth : {50},
     lifts_open : {1}, lifts_total : {5}, temperature : {1},
     trails_open : {0, 3}, trails_total : {0, 30},
     webcams : {"empty", "list"}, weather : {"absent"}]

PrimaryRecords(src) ==
    IF src = "mtnpowder" THEN MtnPowderRecords ELSE OnTheSnowRecords

\* `sum(freezing_levels[:24]) / 24` and the sums after it
HoursAveraged == 24

\* An Open-Meteo payload: the length of its hourly series and the hours
\* whose value is null.
WeatherPayloads ==
    {[hours |-> 0, nulls |-> {}],
     [hours |-> HoursAveraged, nulls |-> {}],
     [hours |-> HoursAveraged, nulls |-> {3}],
     [hours |-> HoursAveraged + 6, nulls |-> {HoursAveraged + 3}]}

\* _normalize_openmeteo raises TypeError when sum() meets a null among the
\* first 24 values of a series that has at least 24.
NormalizeWeatherRaises(w) ==
    /\ w.hours >= HoursAveraged
    /\ \E h \in w.nulls : h <= HoursAveraged

\* The merge of the supplementary record s into normalized_data p: the
\* webcams are taken whenever s has the key, and both trail counts are
\* taken when p's trails_total is falsy and s's is not.
Merge(p, s) ==
    LET fill == p.trails_total = 0 /\ s.trails_total # 0
    IN  [p EXCEPT !.webcams = IF s.webcams # "absent" THEN s.webcams ELSE @,
                  !.trails_total = IF fill THEN s.trails_total ELSE @,
                  !.trails_open = IF fill THEN s.trails_open ELSE @]

\* Faulty variant: a primary adapter that returns no data does not end the
\* call; an empty payload is normalized and the other adapters are called.
CollectPrimaryGoesOnWithoutData ==
    /\ c_pc = "primary"
    /\ c_calls' = Append(c_calls, DataSource(c_resort))
    /\ \/ /\ \E p \in PrimaryRecords(DataSource(c_resort)) : c_data' = {p}
          /\ c_pc' = IF HasOnTheSnowUrl(c_resort) /\ DataSource(c_resort) # "onthesnow"
                     THEN "supplementary" ELSE "weather"
          /\ UNCHANGED <<c_primary, c_ret>>
       \/ /\ c_ret' = "raised"
          /\ c_pc' = "done"
          /\ UNCHANGED <<c_primary, c_data>>
       \/ \E p \in PrimaryRecords(DataSource(c_resort)) :
             /\ c_primary' = {p}
             /\ c_data' = {p}
             /\ c_pc' = IF HasOnTheSnowUrl(c_resort) /\ DataSource(c_resort) # "onthesnow"
                        THEN "supplementary" ELSE "weather"
             /\ UNCHANGED c_ret
    /\ UNCHANGED <<c_resort, c_secondary>>

\* Step 1: the primary adapter and the normalization of its payload.  No
\* payload returns None; an exception leaves the call.
CollectPrimary ==
    /\ c_pc = "primary"
    /\ c_calls' = Append(c_calls, DataSource(c_resort))
    /\ \/ /\ c_ret' = "None"
          /\ c_pc' = "done"
          /\ UNCHANGED <<c_primary, c_data>>
       \/ /\ c_ret' = "raised"
          /\ c_pc' = "done"
          /\ UNCHANGED <<c_primary, c_data>>
       \/ \E p \in PrimaryRecords(DataSource(c_resort)) :
             /\ c_primary' = {p}
             /\ c_data' = {p}
             /\ c_pc' = IF HasOnTheSnowUrl(c_resort) /\ DataSource(c_resort) # "onthesnow"
                        THEN "supplementary" ELSE "weather"
             /\ UNCHANGED c_ret
    /\ UNCHANGED <<c_resort, c_secondary>>

\* Step 2, inside try/except: the supplementary adapter returns nothing or
\* raises, which leaves normalized_data as it is, or its record is merged.
CollectSupplementary ==
    /\ c_pc = "supplementary"
    /\ c_calls' = Append(c_calls, "onthesnow")
    /\ c_pc' = "weather"
    /\ \/ UNCHANGED <<c_secondary, c_data>>
       \/ \E s \in OnTheSnowRecords :
             /\ c_secondary' = {s}
             /\ c_data' = {Merge(CHOOSE p \in c_data : TRUE, s)}
    /\ UNCHANGED <<c_resort, c_primary, c_ret>>

\* Step 3, not guarded: no payload leaves the record without weather block,
\* a payload the normalizer processes attaches the block, and a payload it
\* cannot process ends the call by the normalizer's exception.
CollectWeather ==
    /\ c_pc = "weather"
    /\ c_calls' = Append(c_calls, "openmeteo")
    /\ c_pc' = "done"
    /\ \/ /\ c_ret' = "record"
          /\ UNCHANGED c_data
       \/ \E w \in WeatherPayloads :
             IF NormalizeWeatherRaises(w)
             THEN c_ret' = "raised" /\ UNCHANGED c_data
             ELSE /\ c_ret' = "record"
                  /\ c_data' = {[(CHOOSE p \in c_data : TRUE) EXCEPT
                                    !.weather = "block"]}
    /\ UNCHANGED <<c_resort, c_primary, c_secondary>>

\* _collect_single_resort after collect_resort_data has returned or raised:
\* a record is written with save_resort_data; None is a NO_DATA failure and
\* an exception is caught, both without a write.
CollectFinish ==
    /\ c_pc = "done"
    /\ c_pc' = "finished"
    /\ c_calls' = IF c_ret = "record"
                  THEN Append(c_calls, "save_resort_data") ELSE c_calls
    /\ UNCHANGED <<c_resort, c_primary, c_secondary, c_data, c_ret>>

InitCollect ==
    /\ FetchIdle /\ DbInit /\ SaveInit /\ ReadInit /\ RunIdle /\ use_db = TRUE
    /\ StatusIdle /\ AdminIdle /\ LateIdle
    /\ c_resort \in Resorts
    /\ c_pc = "primary"
    /\ c_primary = {}
    /\ c_secondary = {}
    /\ c_data = {}
    /\ c_ret = "pending"
    /\ c_calls = <<>>

othersOfCollect ==
    <<fetchVars, dbVars, saveVars, readVars, runVars, statusVars, adminVars,
      lateVars>>

NextCollect ==
    \/ CollectPrimary /\ UNCHANGED othersOfCollect
    \/ CollectSupplementary /\ UNCHANGED othersOfCollect
    \/ CollectWeather /\ UNCHANGED othersOfCollect
    \/ CollectFinish /\ UNCHANGED othersOfCollect

SpecCollect == InitCollect /\ [][NextCollect]_vars

-----------------------------------------------------------------------------
(* SpecAdmin: the API process (read handlers and the admin handler), the    *)
(* collection writing records, and the direct flip of enabled               *)

\* The records written in SpecAdmin: without weather block and webcams,
\* reported open, without an opening date or opening tomorrow.
AdminRecords ==
    {d \in Records :
        /\ ~d.weather /\ ~d.webcams
        /\ d.status = "open"
        /\ d.opening \in {NoOpening, OpeningIn(1)}}

othersOfAdmin == <<fetchVars, runVars, statusVars, collectVars, lateVars>>

\* Another save, read or admin request may be made.
OpsLeft == n_saves + n_reads + n_admin < MaxAdminOps

\* A collection's save_resort_data(r, d), failing at fp or not at all.
AdminSave(r, d, fp) ==
    /\ OpsLeft
    /\ n_saves < MaxSaves
    /\ n_saves' = n_saves + 1
    /\ now' = now + 1
    /\ SaveWhole(r, d, fp)
    /\ UNCHANGED <<sv_pc, sv_data, sv_pending, sv_before, sv_filled, acked,
                   readVars, adminVars, othersOfAdmin>>

\* GET /api/resorts/{id} or /api/resorts/slug/{slug} as one step: the answer
\* is DetailAnswer(r, by_slug), and on a miss that finds the resort the
\* data is stored under the key.
AdminReadDetail(r, by_slug) ==
    /\ OpsLeft
    /\ api_db
    /\ n_reads < MaxReads
    /\ n_reads' = n_reads + 1
    /\ cache' = [cache EXCEPT ![IF by_slug THEN KeySlug(r) ELSE KeyId(r)] =
                    DetailAnswer(r, by_slug)]
    /\ NoteFill
    /\ UNCHANGED <<now, resorts_tbl, conditions, weathers, webcam_rows,
                   resort_upd, cond_info, rd_pc, rd_key, rd_resort, rd_val,
                   rd_floor, saveFrame, adminVars, othersOfAdmin>>

AdminReadSummary ==
    /\ OpsLeft
    /\ api_db
    /\ ReadSummary
    /\ UNCHANGED <<saveFrame, adminVars, othersOfAdmin>>

AdminReadAll ==
    /\ OpsLeft
    /\ api_db
    /\ ReadAll
    /\ UNCHANGED <<saveFrame, adminVars, othersOfAdmin>>

AdminDeleteRequest(r, header) ==
    /\ OpsLeft
    /\ AdminRequest(r, header)
    /\ UNCHANGED <<saveVars, readVars, othersOfAdmin>>

AdminDisableCommit ==
    DisableCommit /\ UNCHANGED <<saveVars, readVars, othersOfAdmin>>

AdminDisableInvalidate ==
    DisableInvalidate /\ UNCHANGED <<saveVars, readVars, othersOfAdmin>>

AdminEnableFlip(r) ==
    EnableFlip(r) /\ UNCHANGED <<saveVars, readVars, adminVars, othersOfAdmin>>

\* The API process has a db_manager or not; the secret is unset, empty or
\* set.
InitAdmin ==
    /\ FetchIdle /\ DbInit /\ SaveInit /\ ReadInit /\ RunIdle /\ use_db = TRUE
    /\ StatusIdle /\ CollectIdle /\ LateIdle
    /\ dis_pc = "idle"
    /\ dis_resort = 1
    /\ adm_secret \in AdminSecrets
    /\ adm_header = "absent"
    /\ adm_resp = "none"
    /\ n_admin = 0
    /\ api_db \in BOOLEAN

NextAdmin ==
    \/ \E r \in Selected(TRUE), d \in AdminRecords, fp \in SaveFailPoints :
          AdminSave(r, d, fp)
    \/ \E r \in Selected(TRUE), by_slug \in BOOLEAN : AdminReadDetail(r, by_slug)
    \/ AdminReadSummary
    \/ AdminReadAll
    \/ \E r \in Resorts, header \in AdminHeaders : AdminDeleteRequest(r, header)
    \/ AdminDisableCommit
    \/ AdminDisableInvalidate
    \/ \E r \in Resorts : AdminEnableFlip(r)

SpecAdmin == InitAdmin /\ [][NextAdmin]_vars

-----------------------------------------------------------------------------
(* SpecDisabledRun: a run of collect_all over a store an earlier run has    *)
(* filled, with the admin handler disabling resorts before or during it     *)

othersOfDisable ==
    <<fetchVars, saveVars, readVars, runVars, statusVars, collectVars, lateVars>>

\* The store after an earlier run at clock 2 has saved a bare record for
\* every resort enabled in the registry; the API process has its db_manager
\* and a configured key.
InitDisabledRun ==
    /\ FetchIdle /\ SaveInit /\ ReadInit /\ RunIdle /\ use_db = TRUE
    /\ StatusIdle /\ CollectIdle /\ LateIdle
    /\ now = 2
    /\ resorts_tbl = [r \in Resorts |->
           IF r \in Selected(TRUE) THEN "enabled" ELSE "absent"]
    /\ conditions = [r \in Resorts |-> IF r \in Selected(TRUE) THEN <<2>> ELSE <<>>]
    /\ cond_info = [r \in Resorts |->
           IF r \in Selected(TRUE)
           THEN <<[status |-> NoData.status, opening |-> NoData.opening]>>
           ELSE <<>>]
    /\ weathers = [r \in Resorts |-> <<>>]
    /\ webcam_rows = [r \in Resorts |-> <<>>]
    /\ resort_upd = [r \in Resorts |-> IF r \in Selected(TRUE) THEN 2 ELSE 0]
    /\ cache = [k \in Keys |-> {}]
    /\ dis_pc = "idle"
    /\ dis_resort = 1
    /\ adm_secret = "k1"
    /\ adm_header = "absent"
    /\ adm_resp = "none"
    /\ n_admin = 0
    /\ api_db = TRUE

\* The admin requests carry the configured key and name a resort of the
\* registry's enabled ones, at most one request for each run.
NextDisabledRun ==
    \/ NextRun
    \/ \E r \in Selected(TRUE) :
          /\ n_admin < MaxRuns
          /\ AdminRequest(r, adm_secret)
          /\ UNCHANGED othersOfDisable
    \/ DisableCommit /\ UNCHANGED othersOfDisable
    \/ DisableInvalidate /\ UNCHANGED othersOfDisable

SpecDisabledRun == InitDisabledRun /\ [][NextDisabledRun]_vars

-----------------------------------------------------------------------------
(* SpecNormalize: DataNormalizer.normalize applied to one raw payload, and   *)
(* the ResortCondition row save_resort_data builds from the record          *)

Min(a, b) == IF a < b THEN a ELSE b

\* A value that may be None: {} is None, {v} is v.
Some(v) == {v}
The(o) == CHOOSE x \in o : TRUE

\* OperatingStatus of a MtnPowder feed, and `'Open' in operating_status`
OperatingStatuses == {"", "Open", "Closed", "Open Weekends"}
ContainsOpen(s) == s \in {"Open", "Open Weekends"}

\* TemperatureC of the base station, a string when present
TemperatureTexts == {"--", " -- ", "", "-3", "2", "n/a"}
strip(t) == IF t = " -- " THEN "--" ELSE t
\* float(value): the strings it converts; it raises ValueError on the others
FloatOf == [t \in {"-3", "2"} |-> IF t = "-3" THEN 0 - 3 ELSE 2]

safe_float(value, default) ==
    IF value = {} THEN default
    ELSE IF strip(The(value)) \in {"--", ""} THEN default
    ELSE IF The(value) \in DOMAIN FloatOf THEN FloatOf[The(value)]
    ELSE default

MtnPowderPayloads ==
    [OperatingStatus : OperatingStatuses,
     TotalOpenLifts : {0, 5, 12}, TotalLifts : {10},
     TotalOpenTrails : {20}, TotalTrails : {40},
     StormTotalCM : {0, 7},
     TemperatureC : {{}} \cup {Some(t) : t \in TemperatureTexts}]

\* Faulty variant: the lift count is not consulted.
MtnPowderStatusByTextOnly(raw) ==
    IF ContainsOpen(raw.OperatingStatus) THEN "partial" ELSE "closed"

MtnPowderStatus(raw) ==
    IF ContainsOpen(raw.OperatingStatus) /\ raw.TotalOpenLifts > 0 THEN "open"
    ELSE IF ContainsOpen(raw.OperatingStatus) THEN "partial"
    ELSE "closed"

_normalize_mtnpowder(raw, clock) ==
    [status |-> MtnPowderStatus(raw),
     new_snow |-> raw.StormTotalCM,
     lifts_open |-> raw.TotalOpenLifts,
     lifts_total |-> raw.TotalLifts,
     trails_open |-> raw.TotalOpenTrails,
     trails_total |-> raw.TotalTrails,
     temperature |-> safe_float(raw.TemperatureC, 0),
     last_update |-> clock,
     data_source |-> "mtnpowder"]

\* fullResort of an OnTheSnow page: status.openFlag, snow.last24 and the
\* lifts and runs counts, each of which may be null.
OnTheSnowPayloads ==
    [openFlag : {0, 1, 2}, last24 : {{}, Some(3)},
     lifts_open : {{}, Some(0), Some(5), Some(12)},
     lifts_total : {{}, Some(10)},
     runs_open : {Some(20)}, runs_total : {{}, Some(40)}]

handle_none_as_zero(value) == IF value = {} THEN 0 ELSE The(value)

_normalize_onthesnow(raw, clock) ==
    [status |-> IF raw.openFlag = 0 THEN "open"
                ELSE IF raw.openFlag = 1 THEN "partial" ELSE "closed",
     new_snow |-> handle_none_as_zero(raw.last24),
     lifts_open |-> handle_none_as_zero(raw.lifts_open),
     lifts_total |-> handle_none_as_zero(raw.lifts_total),
     trails_open |-> handle_none_as_zero(raw.runs_open),
     trails_total |-> handle_none_as_zero(raw.runs_total),
     temperature |-> 0,
     last_update |-> clock,
     data_source |-> "onthesnow"]

\* `for i in range(min(80, len(times)))` over hourly['time']
HourlyKept == 80
\* `for i in range(min(7, len(times)))` over daily['time']
DailyKept == 7

\* A series of an Open-Meteo answer: point i is written i.
Series(n) == [i \in 1..n |-> i]

OpenMeteoPayloads ==
    [hourly_time : {Series(m) : m \in {0, 1, 79, 80, 81, 96}},
     daily_time : {Series(n) : n \in {0, 1, 6, 7, 8, 9}}]

_normalize_openmeteo(raw, clock) ==
    [hourly_forecast |->
         [i \in 1..Min(HourlyKept, Len(raw.hourly_time)) |-> raw.hourly_time[i]],
     forecast_7d |->
         [i \in 1..Min(DailyKept, Len(raw.daily_time)) |-> raw.daily_time[i]],
     last_update |-> clock,
     data_source |-> "openmeteo"]

DataSources == {"mtnpowder", "onthesnow", "openmeteo", "unknown"}

PayloadsOf(src) ==
    IF src = "mtnpowder" THEN MtnPowderPayloads
    ELSE IF src = "onthesnow" THEN OnTheSnowPayloads
    ELSE IF src = "openmeteo" THEN OpenMeteoPayloads
    ELSE {[OperatingStatus |-> "Open"]}

\* DataNormalizer.normalize(resort_config, raw_data, data_source)
normalize(raw, src, clock) ==
    IF src = "mtnpowder" THEN Some(_normalize_mtnpowder(raw, clock))
    ELSE IF src = "onthesnow" THEN Some(_normalize_onthesnow(raw, clock))
    ELSE IF src = "openmeteo" THEN Some(_normalize_openmeteo(raw, clock))
    ELSE {}

\* The ResortCondition save_resort_data builds from normalized_data
ConditionRow(d) ==
    [status |-> d.status, new_snow |-> d.new_snow,
     lifts_open |-> d.lifts_open, lifts_total |-> d.lifts_total,
     trails_open |-> d.trails_open, trails_total |-> d.trails_total,
     temperature |-> d.temperature, data_source |-> d.data_source]

\* One application; datetime.now() gives the clock's reading at that moment.
Normalize ==
    /\ Len(nz_out) < Applications
    /\ \E t \in nz_clock..MaxClock :
          /\ nz_clock' = t
          /\ nz_out' = Append(nz_out, normalize(nz_raw, nz_source, t))
    /\ UNCHANGED <<nz_source, nz_raw, nz_rows>>

\* save_resort_data on the next record of a provider: step 2, the condition
NormSave ==
    /\ nz_source \in {"mtnpowder", "onthesnow"}
    /\ Len(nz_rows) < Len(nz_out)
    /\ nz_rows' = Append(nz_rows, ConditionRow(The(nz_out[Len(nz_rows) + 1])))
    /\ UNCHANGED <<nz_source, nz_raw, nz_clock, nz_out>>

InitNormalize ==
    /\ FetchIdle /\ DbInit /\ SaveInit /\ ReadInit /\ RunIdle /\ use_db = TRUE
    /\ StatusIdle /\ AdminIdle /\ CollectIdle /\ WebcamIdle /\ TrailsIdle
    /\ ApiIdle /\ ProgressIdle /\ UpsertIdle
    /\ nz_source \in DataSources
    /\ nz_raw \in PayloadsOf(nz_source)
    /\ nz_clock = 0
    /\ nz_out = <<>>
    /\ nz_rows = <<>>

othersOfNormalize ==
    <<fetchVars, dbVars, saveVars, readVars, runVars, statusVars, adminVars,
      collectVars, webcamVars, trailVars, apiVars, progVars,
      upsertVars>>

NextNormalize ==
    \/ Normalize /\ UNCHANGED othersOfNormalize
    \/ NormSave /\ UNCHANGED othersOfNormalize

SpecNormalize == InitNormalize /\ [][NextNormalize]_vars

-----------------------------------------------------------------------------
(* SpecWebcams: collections saving the webcam list of one resort            *)
(* (_save_webcams) and the API reading the latest row of each webcam        *)

WebcamUuids == {1, 2}

\* The webcams of a normalized record: up to two entries, each naming a uuid.
WebcamLists ==
    {<<>>} \cup {<<u>> : u \in WebcamUuids}
           \cup {<<u, v>> : u \in WebcamUuids, v \in WebcamUuids}

\* resort_webcams is append-only: a row is added whatever rows are there.
InsertWebcam(rows, row) == Append(rows, row)

\* _save_webcams(session, resort_id, webcams, source): one timestamp for the
\* call, one row per entry of the list.
RECURSIVE _save_webcams(_, _, _)
_save_webcams(rows, webcams, timestamp) ==
    IF webcams = <<>> THEN rows
    ELSE _save_webcams(
             InsertWebcam(rows, [webcam_uuid |-> Head(webcams),
                                 timestamp |-> timestamp]),
             Tail(webcams), timestamp)

\* Step 4 of save_resort_data and its commit: `if webcams:` saves the list.
SaveWebcams(webcams) ==
    /\ wc_clock <= MaxCollections
    /\ wc_rows' = IF webcams # <<>>
                  THEN _save_webcams(wc_rows, webcams, wc_clock)
                  ELSE wc_rows
    /\ wc_clock' = wc_clock + 1
    /\ UNCHANGED wc_answer

\* The subquery: max(timestamp) of the rows of one webcam_uuid
max_timestamp(rows, u) ==
    CHOOSE t \in {rows[i].timestamp : i \in {j \in DOMAIN rows : rows[j].webcam_uuid = u}} :
        \A i \in DOMAIN rows : rows[i].webcam_uuid = u => rows[i].timestamp <= t

\* The join of resort_webcams with the subquery on webcam_uuid and timestamp:
\* one entry for every row it matches.
latest_webcams(rows) ==
    {[id |-> i, webcam_uuid |-> rows[i].webcam_uuid,
      timestamp |-> rows[i].timestamp] :
        i \in {j \in DOMAIN rows :
                  rows[j].timestamp = max_timestamp(rows, rows[j].webcam_uuid)}}

\* get_latest_resort_data on a cache miss, as far as webcams go
WebcamRead ==
    /\ wc_answer' = latest_webcams(wc_rows)
    /\ UNCHANGED <<wc_rows, wc_clock>>

InitWebcams ==
    /\ FetchIdle /\ DbInit /\ SaveInit /\ ReadInit /\ RunIdle /\ use_db = TRUE
    /\ StatusIdle /\ AdminIdle /\ CollectIdle /\ NormIdle /\ TrailsIdle
    /\ ApiIdle /\ ProgressIdle /\ UpsertIdle
    /\ WebcamIdle

othersOfWebcams ==
    <<fetchVars, dbVars, saveVars, readVars, runVars, statusVars, adminVars,
      collectVars, normVars, trailVars, apiVars, progVars,
      upsertVars>>

NextWebcams ==
    \/ \E webcams \in WebcamLists :
           SaveWebcams(webcams) /\ UNCHANGED othersOfWebcams
    \/ WebcamRead /\ UNCHANGED othersOfWebcams

SpecWebcams == InitWebcams /\ [][NextWebcams]_vars

-----------------------------------------------------------------------------
(* SpecTrails: calls of save_trails_data for one resort by the trails        *)
(* collector, and the API reading the trails (get_resort_trails)            *)

TrailIds == {1, 2}

\* trails_data as OSMTrailsCollector returns it: the trails and the boundary,
\* which may be missing.
TrailsData == [trails : SUBSET TrailIds, boundary : {"none", "b1", "b2"}]

TrailsReturned == {"idle", "ret_true", "ret_false"}

\* save_trails_data up to the commit: the boundary is set when there is one,
\* the old rows are deleted and the new ones added, and the session commits;
\* or an exception before the commit has succeeded is caught, the session
\* rolls back and the call returns False.
TrailsCommit(d) ==
    /\ tr_pc \in TrailsReturned
    /\ tr_calls < MaxSaves
    /\ tr_calls' = tr_calls + 1
    /\ tr_data' = d
    /\ tr_before' = [rows |-> tr_rows, boundary |-> tr_boundary]
    /\ \/ /\ tr_rows' = d.trails
          /\ tr_boundary' = IF d.boundary # "none" THEN d.boundary ELSE tr_boundary
          /\ tr_pc' = "delete_id"
       \/ /\ tr_pc' = "ret_false"
          /\ UNCHANGED <<tr_rows, tr_boundary>>
    /\ UNCHANGED tr_cache

\* _invalidate_trails_cache: the two redis deletes.  A delete that raises is
\* caught by the except clause of save_trails_data, which rolls back the
\* session, already committed, and returns False.
TrailsInvalidate ==
    /\ tr_pc \in {"delete_id", "delete_slug"}
    /\ \/ /\ tr_cache' = [tr_cache EXCEPT
                  ![IF tr_pc = "delete_id" THEN "trails_id" ELSE "trails_slug"] = {}]
          /\ tr_pc' = IF tr_pc = "delete_id" THEN "delete_slug" ELSE "ret_true"
       \/ /\ tr_pc' = "ret_false"
          /\ UNCHANGED tr_cache
    /\ UNCHANGED <<tr_rows, tr_boundary, tr_data, tr_before, tr_calls>>

\* get_resort_trails(resort_id) or (resort_slug): a hit returns the cached
\* list; a miss queries the rows and stores them under the key for an hour.
TrailsRead(key) ==
    /\ tr_cache[key] = {}
    /\ tr_cache' = [tr_cache EXCEPT ![key] = {tr_rows}]
    /\ UNCHANGED <<tr_rows, tr_boundary, tr_pc, tr_data, tr_before, tr_calls>>

InitTrails ==
    /\ FetchIdle /\ DbInit /\ SaveInit /\ ReadInit /\ RunIdle /\ use_db = TRUE
    /\ StatusIdle /\ AdminIdle /\ CollectIdle /\ NormIdle /\ WebcamIdle
    /\ ApiIdle /\ ProgressIdle /\ UpsertIdle
    /\ TrailsIdle

othersOfTrails ==
    <<fetchVars, dbVars, saveVars, readVars, runVars, statusVars, adminVars,
      collectVars, normVars, webcamVars, apiVars, progVars,
      upsertVars>>

NextTrails ==
    \/ \E d \in TrailsData : TrailsCommit(d) /\ UNCHANGED othersOfTrails
    \/ TrailsInvalidate /\ UNCHANGED othersOfTrails
    \/ \E key \in TrailKeys : TrailsRead(key) /\ UNCHANGED othersOfTrails

SpecTrails == InitTrails /\ [][NextTrails]_vars

-----------------------------------------------------------------------------
(* SpecApi: the read endpoints of the API over a database that may stop      *)
(* answering, before the service starts or while it runs                     *)

Response(endpoint, r, status, body) ==
    [endpoint |-> endpoint, resort |-> r, status |-> status, body |-> body,
     db_up |-> ap_up]

\* The database stops or resumes answering.
DbFlip ==
    /\ ap_up' = ~ap_up
    /\ UNCHANGED <<ap_manager, ap_tbl, ap_cache, ap_resp>>

\* A key's TTL runs out.
ApiExpire(k) ==
    /\ k \in ap_cache
    /\ ap_cache' = ap_cache \ {k}
    /\ UNCHANGED <<ap_manager, ap_up, ap_tbl, ap_resp>>

\* GET /api/resorts/{id}: 500 without a db_manager; otherwise
\* get_latest_resort_data, whose except clause turns a failing query into
\* None, and 404 for None.
get_resort_by_id(r) ==
    /\ \/ /\ ~ap_manager
          /\ ap_resp' = Response("resort", r, 500, "error")
          /\ UNCHANGED ap_cache
       \/ /\ ap_manager /\ KeyId(r) \in ap_cache
          /\ ap_resp' = Response("resort", r, 200, "data")
          /\ UNCHANGED ap_cache
       \/ /\ ap_manager /\ KeyId(r) \notin ap_cache /\ ~ap_up
          /\ ap_resp' = Response("resort", r, 404, "error")
          /\ UNCHANGED ap_cache
       \/ /\ ap_manager /\ KeyId(r) \notin ap_cache /\ ap_up /\ r \in ap_tbl
          /\ ap_cache' = ap_cache \cup {KeyId(r)}
          /\ ap_resp' = Response("resort", r, 200, "data")
       \/ /\ ap_manager /\ KeyId(r) \notin ap_cache /\ ap_up /\ r \notin ap_tbl
          /\ ap_resp' = Response("resort", r, 404, "error")
          /\ UNCHANGED ap_cache
    /\ UNCHANGED <<ap_manager, ap_up, ap_tbl>>

\* GET /api/resorts/summary: 500 without a db_manager; otherwise
\* get_all_resorts_summary, whose except clause turns a failing query into
\* [], and 404 for an empty list.
get_resorts_summary ==
    /\ \/ /\ ~ap_manager
          /\ ap_resp' = Response("summary", 0, 500, "error")
          /\ UNCHANGED ap_cache
       \/ /\ ap_manager /\ KeySummary \in ap_cache
          /\ ap_resp' = Response("summary", 0, 200, "data")
          /\ UNCHANGED ap_cache
       \/ /\ ap_manager /\ KeySummary \notin ap_cache /\ ~ap_up
          /\ ap_resp' = Response("summary", 0, 404, "error")
          /\ UNCHANGED ap_cache
       \/ /\ ap_manager /\ KeySummary \notin ap_cache /\ ap_up /\ ap_tbl # {}
          /\ ap_cache' = ap_cache \cup {KeySummary}
          /\ ap_resp' = Response("summary", 0, 200, "data")
       \/ /\ ap_manager /\ KeySummary \notin ap_cache /\ ap_up /\ ap_tbl = {}
          /\ ap_resp' = Response("summary", 0, 404, "error")
          /\ UNCHANGED ap_cache
    /\ UNCHANGED <<ap_manager, ap_up, ap_tbl>>

\* The module is loaded: DatabaseManager() connects (create_all) and, when
\* that raises, db_manager is None for the life of the process.
InitApi ==
    /\ FetchIdle /\ DbInit /\ SaveInit /\ ReadInit /\ RunIdle /\ use_db = TRUE
    /\ StatusIdle /\ AdminIdle /\ CollectIdle
    /\ NormIdle /\ WebcamIdle /\ TrailsIdle /\ ProgressIdle /\ UpsertIdle
    /\ ap_up \in BOOLEAN
    /\ ap_manager = ap_up
    /\ ap_tbl \in SUBSET Resorts
    /\ ap_cache = {}
    /\ ap_resp = NoResponse

othersOfApi ==
    <<fetchVars, dbVars, saveVars, readVars, runVars, statusVars, adminVars,
      collectVars, normVars, webcamVars, trailVars, progVars,
      upsertVars>>

NextApi ==
    \/ DbFlip /\ UNCHANGED othersOfApi
    \/ \E k \in {KeyId(r) : r \in Resorts} \cup {KeySummary} : ApiExpire(k) /\ UNCHANGED othersOfApi
    \/ \E r \in Resorts : get_resort_by_id(r) /\ UNCHANGED othersOfApi
    \/ get_resorts_summary /\ UNCHANGED othersOfApi

SpecApi == InitApi /\ [][NextApi]_vars

-----------------------------------------------------------------------------
(* SpecProgress: one run of collect_all seen from its threads: the workers   *)
(* of the pool, each running _collect_single_resort, the main thread in the  *)
(* as_completed loop, and self.print_lock                                    *)

Tasks == 1..pg_n
MainThread == 0

\* A worker is in collect_resort_data (HTTP), in save_resort_data (the
\* transaction), before or inside a `with self.print_lock`, or in
\* failure_tracker.add_failure.
Running == {"http", "db", "report", "printing", "track"}

progFrame == <<pg_n, pg_main, pg_taken, pg_completed, pg_log>>

\* The pool gives a queued task to a free worker thread.
TaskStart(t) ==
    /\ pg_w[t] = "queued"
    /\ Cardinality({u \in Tasks : pg_w[u] \in Running}) < MaxWorkers
    /\ pg_w' = [pg_w EXCEPT ![t] = "http"]
    /\ UNCHANGED <<pg_lock, progFrame>>

\* Faulty variant: the lock is taken before the record is saved and kept
\* during the transaction.
TaskCollectUnderLock(t) ==
    /\ pg_w[t] = "http"
    /\ pg_lock = {}
    /\ pg_lock' = {t}
    /\ pg_w' = [pg_w EXCEPT ![t] = "db"]
    /\ UNCHANGED progFrame

\* collect_resort_data returns a record, which is saved when there is a
\* database, or returns None or raises, which is reported.
TaskCollect(t) ==
    /\ pg_w[t] = "http"
    /\ \E next \in {"db", "report"} : pg_w' = [pg_w EXCEPT ![t] = next]
    /\ UNCHANGED <<pg_lock, progFrame>>

\* save_resort_data returns True or False.
TaskSave(t) ==
    /\ pg_w[t] = "db"
    /\ pg_w' = [pg_w EXCEPT ![t] = "report"]
    /\ UNCHANGED <<pg_lock, progFrame>>

\* `with self.print_lock:` is entered when the lock is free.
TaskAcquire(t) ==
    /\ pg_w[t] = "report"
    /\ pg_lock = {}
    /\ pg_lock' = {t}
    /\ pg_w' = [pg_w EXCEPT ![t] = "printing"]
    /\ UNCHANGED progFrame

\* The line is printed and the with block is left; a failure is then handed
\* to the tracker, a success returns.
TaskPrint(t) ==
    /\ pg_w[t] = "printing"
    /\ pg_lock' = pg_lock \ {t}
    /\ \E next \in {"track", "done"} : pg_w' = [pg_w EXCEPT ![t] = next]
    /\ UNCHANGED progFrame

\* failure_tracker.add_failure and the return of the task
TaskTrack(t) ==
    /\ pg_w[t] = "track"
    /\ pg_w' = [pg_w EXCEPT ![t] = "done"]
    /\ UNCHANGED <<pg_lock, progFrame>>

\* as_completed yields a finished future; `completed += 1` and
\* future.result().
MainTake(t) ==
    /\ pg_main = "wait"
    /\ pg_w[t] = "done"
    /\ t \notin pg_taken
    /\ pg_taken' = pg_taken \cup {t}
    /\ pg_completed' = pg_completed + 1
    /\ pg_main' = "report"
    /\ UNCHANGED <<pg_n, pg_w, pg_lock, pg_log>>

MainAcquire ==
    /\ pg_main = "report"
    /\ pg_lock = {}
    /\ pg_lock' = {MainThread}
    /\ pg_main' = "printing"
    /\ UNCHANGED <<pg_n, pg_w, pg_taken, pg_completed, pg_log>>

\* print(f"[{completed}/{len(resorts_to_collect)}] ...") and the end of the
\* with block
MainPrint ==
    /\ pg_main = "printing"
    /\ pg_log' = Append(pg_log, pg_completed)
    /\ pg_lock' = pg_lock \ {MainThread}
    /\ pg_main' = "wait"
    /\ UNCHANGED <<pg_n, pg_w, pg_taken, pg_completed>>

\* as_completed is exhausted; the pool is shut down and results returned.
MainReturn ==
    /\ pg_main = "wait"
    /\ pg_taken = Tasks
    /\ pg_main' = "returned"
    /\ UNCHANGED <<pg_n, pg_w, pg_lock, pg_taken, pg_completed, pg_log>>

ProgressStep ==
    \/ \E t \in Tasks : TaskStart(t)
    \/ \E t \in Tasks : TaskCollect(t)
    \/ \E t \in Tasks : TaskSave(t)
    \/ \E t \in Tasks : TaskAcquire(t)
    \/ \E t \in Tasks : TaskPrint(t)
    \/ \E t \in Tasks : TaskTrack(t)
    \/ \E t \in Tasks : MainTake(t)
    \/ MainAcquire
    \/ MainPrint
    \/ MainReturn

\* collect_all after the submit loop: every task is queued, completed = 0.
InitProgress ==
    /\ FetchIdle /\ DbInit /\ SaveInit /\ ReadInit /\ RunIdle /\ use_db = TRUE
    /\ StatusIdle /\ AdminIdle /\ CollectIdle
    /\ NormIdle /\ WebcamIdle /\ TrailsIdle /\ ApiIdle /\ UpsertIdle
    /\ pg_n \in 0..MaxTasks
    /\ pg_w = [t \in 1..pg_n |-> "queued"]
    /\ pg_lock = {}
    /\ pg_main = "wait"
    /\ pg_taken = {}
    /\ pg_completed = 0
    /\ pg_log = <<>>

othersOfProgress ==
    <<fetchVars, dbVars, saveVars, readVars, runVars, statusVars, adminVars,
      collectVars, normVars, webcamVars, trailVars, apiVars,
      upsertVars>>

NextProgress == ProgressStep /\ UNCHANGED othersOfProgress

SpecProgress == InitProgress /\ [][NextProgress]_vars

-----------------------------------------------------------------------------
(* SpecUpsert: the row of one resort in the table resorts under             *)
(* save_resort_data, disable_resort and save_contact_info                   *)

\* The registry descriptor of the resort, as it may read at any call, and the
\* contact fields of a normalized record.
Descriptors == [name : {"A", "B"}, lat : {1, 2}, enabled : BOOLEAN]
ContactValues == {"none", "p1", "p2"}

\* Faulty variant: the existing row is refreshed from the descriptor.
UpsertRowRefreshing(row, cfg, phone, t) ==
    {[name |-> cfg.name, lat |-> cfg.lat, enabled |-> cfg.enabled,
      phone |-> IF row = {} THEN phone ELSE The(row).phone,
      updated_at |-> t]}

\* Step 1 of save_resort_data: a Resort is created from the descriptor and
\* the record when the id has no row; the row that exists gets a new
\* updated_at and nothing else.
UpsertRow(row, cfg, phone, t) ==
    IF row = {}
    THEN {[name |-> cfg.name, lat |-> cfg.lat, enabled |-> cfg.enabled,
           phone |-> phone, updated_at |-> t]}
    ELSE {[The(row) EXCEPT !.updated_at = t]}

\* save_resort_data(resort_config, normalized_data): the commit succeeds, or
\* the transaction is rolled back.
UpsertSave(cfg, phone) ==
    /\ up_calls < MaxSaves
    /\ up_calls' = up_calls + 1
    /\ \E failed \in BOOLEAN :
          /\ up_row' = IF failed THEN up_row
                       ELSE UpsertRow(up_row, cfg, phone, up_calls')
          /\ up_last' = [op |-> "save", existed |-> up_row # {}, failed |-> failed]

\* disable_resort(id) on a row that exists: enabled is cleared, updated_at is
\* rewritten by its onupdate default when the row changes.
UpsertDisable ==
    /\ up_row # {}
    /\ up_row' = {[The(up_row) EXCEPT
                      !.enabled = FALSE,
                      !.updated_at = IF The(up_row).enabled THEN up_calls ELSE @]}
    /\ up_last' = [op |-> "disable", existed |-> TRUE, failed |-> FALSE]
    /\ UNCHANGED up_calls

\* save_contact_info(id, contact_info) on a row that exists
UpsertContact(phone) ==
    /\ up_row # {}
    /\ phone # "none"
    /\ up_row' = {[The(up_row) EXCEPT
                      !.phone = phone,
                      !.updated_at = IF The(up_row).phone # phone THEN up_calls ELSE @]}
    /\ up_last' = [op |-> "contact", existed |-> TRUE, failed |-> FALSE]
    /\ UNCHANGED up_calls

InitUpsert ==
    /\ FetchIdle /\ DbInit /\ SaveInit /\ ReadInit /\ RunIdle /\ use_db = TRUE
    /\ StatusIdle /\ AdminIdle /\ CollectIdle
    /\ NormIdle /\ WebcamIdle /\ TrailsIdle /\ ApiIdle /\ ProgressIdle
    /\ UpsertIdle

othersOfUpsert ==
    <<fetchVars, dbVars, saveVars, readVars, runVars, statusVars, adminVars,
      collectVars, normVars, webcamVars, trailVars, apiVars, progVars>>

NextUpsert ==
    \/ \E cfg \in Descriptors, phone \in ContactValues :
           UpsertSave(cfg, phone) /\ UNCHANGED othersOfUpsert
    \/ UpsertDisable /\ UNCHANGED othersOfUpsert
    \/ \E phone \in ContactValues : UpsertContact(phone) /\ UNCHANGED othersOfUpsert

SpecUpsert == InitUpsert /\ [][NextUpsert]_vars

-----------------------------------------------------------------------------
(* Properties of save_resort_data and the read path (SpecStore)             *)

\* C1: after save_resort_data has returned True for a resort, with no cache
\* fill since the call began, the keys resort:{id}, resort:{slug},
\* resorts:all and resorts:summary are all absent.
C1_AllKeysAbsentAfterSave ==
    \A r \in Resorts :
        (sv_pc[r] = "ret_true" /\ ~sv_filled[r]) =>
            /\ ~Present(KeyId(r))
            /\ ~Present(KeySlug(r))
            /\ ~Present(KeyAll)
            /\ ~Present(KeySummary)

\* C2: a read of a resort that began after a save_resort_data for it had
\* returned True never returns data older than the snapshot of that save.
C2_ReadAfterSaveIsFresh ==
    rd_pc = "returned" =>
        \A v \in rd_val : v.last_update >= rd_floor

\* C3: when save_resort_data returns False, the committed rows of the resort
\* are those it had when the call began.
C3_FailedSaveCommitsNothing ==
    \A r \in Resorts :
        sv_pc[r] = "ret_false" => RowsOf(r) = sv_before[r]

-----------------------------------------------------------------------------
(* Properties of the collection run (SpecRun)                               *)

\* The store holds a condition row of the resort written since the run began.
HasNewRow(r) ==
    \E i \in 1..Len(conditions[r]) : conditions[r][i] >= run_start

Successes == {results[i] : i \in 1..Len(results)}

C5_JoinsEveryTask ==
    /\ \A r \in Resorts :
          run_pc # "idle" => submitted[r] = (IF r \in selected THEN 1 ELSE 0)
    /\ run_pc = "returned" =>
          /\ \A r \in selected : w_pc[r] = "done"
          /\ Successes = {r \in selected : w_ret[r] = "data"}
          /\ Len(results) = Cardinality(Successes)
    /\ run_pc = "running" => ENABLED NextRun

\* C5: a run of two tasks has returned, one task failed, the other succeeded.
C5_Reached ==
    /\ run_pc = "returned"
    /\ \E r, q \in selected : w_ret[r] = "error" /\ w_ret[q] = "data"

\* C6: in a run with a failure tracker, when collect_all has returned every
\* attempted resort has either its record in the list and no ledger entry,
\* or one ledger entry and no record; the two lists together are as long as
\* the set of attempted resorts.
C6_RecordOrOneEntry ==
    (has_tracker /\ run_pc = "returned") =>
        /\ \A r \in selected :
              LET recs == Cardinality({i \in 1..Len(results) : results[i] = r})
                  ents == Cardinality({i \in 1..Len(failures) :
                                          failures[i].resort_id = r})
              IN  \/ recs = 1 /\ ents = 0
                  \/ recs = 0 /\ ents = 1
        /\ Len(results) + Len(failures) = Cardinality(selected)

\* C6: a run with a tracker has returned with two failed tasks.
C6_Reached ==
    /\ has_tracker
    /\ run_pc = "returned"
    /\ Len(failures) = 2
    /\ results = <<>>

\* C7: no task ends by an exception, so future.result() never raises and
\* collect_all is never ended by a worker's exception.
C7_WorkerNeverRaises ==
    /\ run_pc # "raised"
    /\ \A r \in Resorts : w_ret[r] # "raised"

\* C7: a task in which an exception was raised has returned its error pair,
\* and the run has returned.
C7_Reached ==
    /\ run_pc = "returned"
    /\ \E r \in selected : w_cause[r] = "exception" /\ w_ret[r] = "error"

\* The failure classes C8 names.
NamedCauses ==
    {"HTTP_404", "TIMEOUT", "CONNECTION_ERROR", "JSON_ERROR", "NO_DATA",
     "DATABASE_SAVE_FAILED"}

\* C8: the ledger entry of a failed resort carries the error type of the
\* class of its failure.
C8_EntryCarriesCause ==
    \A i \in 1..Len(failures) :
        LET e == failures[i]
        IN  w_cause[e.resort_id] \in NamedCauses =>
                e.error_type = w_cause[e.resort_id]

-----------------------------------------------------------------------------
(* Properties of fetch_with_retry (SpecFetch)                               *)

\* C9: when the first response is a 404, one request is made, nothing is
\* waited for, and the call has returned None.
C9_NotFoundIsNotRetried ==
    (f_hist # <<>> /\ f_hist[1] = Status(404)) =>
        /\ Len(f_hist) = 1
        /\ f_waits = <<>>
        /\ f_pc = "done"
        /\ f_ret = "None"

\* C9: a call with max_retries = 3 has returned after a first 404.
C9_Reached ==
    /\ max_retries = 3
    /\ f_pc = "done"
    /\ f_hist = <<Status(404)>>

\* The outcomes after which section 4.1 allows another request.
RetryableAsStated(o) ==
    \/ o.kind \in Transport
    \/ o.kind = "status" /\ (o.code \in {408, 425, 429} \/ o.code >= 500)

\* C10 as stated: a request is followed by another one only when its outcome
\* is a transport error, a timeout or a status in {408, 425, 429, 5xx}.
C10_RetryOnlyAsStated ==
    \A i \in 1..(Len(f_hist) - 1) : RetryableAsStated(f_hist[i])

\* C10, amended: a request is followed by another one only when its outcome
\* is neither 200 nor 404, and a call that ends before max_retries requests
\* were made ended on a 200 or a 404: every other status, 400, 401 and 403
\* included, is retried like a transport error or a timeout.
C10_RetryUnless200Or404 ==
    /\ \A i \in 1..(Len(f_hist) - 1) : f_hist[i] \notin {Status(200), Status(404)}
    /\ (f_pc = "done" /\ f_hist # <<>> /\ Len(f_hist) < max_retries) =>
           f_hist[Len(f_hist)] \in {Status(200), Status(404)}

\* C10: a second request has been made after a 403.
C10_Reached ==
    /\ Len(f_hist) >= 2
    /\ f_hist[1] = Status(403)

\* The call has made every request max_retries allows and none was answered
\* 200 or 404.
Exhausted ==
    /\ f_pc = "done"
    /\ Len(f_hist) = max_retries
    /\ \A i \in 1..Len(f_hist) : ResponseBranch(f_hist[i]) = "retry"

\* C11: at most max_retries requests are made; the wait after failed request
\* N is 2 * N seconds and is made before request N + 1, so never after the
\* last request max_retries allows; a call whose requests all failed in a
\* retryable way has returned None.
C11_BoundedRequestsAndBackoff ==
    /\ Len(f_hist) <= max_retries
    /\ \A n \in 1..Len(f_waits) : f_waits[n] = 2 * n
    /\ Len(f_waits) <= Len(f_hist)
    /\ Len(f_waits) < max_retries \/ max_retries = 0
    /\ (f_pc = "loop" /\ attempt < max_retries) => Len(f_waits) = Len(f_hist)
    /\ f_pc = "wait" => Len(f_waits) = Len(f_hist) - 1
    /\ Exhausted => f_ret = "None"
    /\ (Exhausted /\ max_retries >= 1) => Len(f_waits) = max_retries - 1
    /\ f_ret \in {"pending", "response", "None"}
    /\ f_pc = "done" => f_ret # "pending"

\* C11: a call with max_retries = 3 has ended after a 503, a timeout and a
\* transport error, having waited 2 and 4 seconds.
C11_Reached ==
    /\ max_retries = 3
    /\ Exhausted
    /\ f_hist = <<Status(503), Raised("Timeout"), Raised("ConnectionError")>>
    /\ f_waits = <<2, 4>>

-----------------------------------------------------------------------------
(* Properties of calculate_status_by_opening_date (SpecStatus)              *)

\* C17: the returned status is closed when the opening date is strictly
\* after today, open when the resort opened within the last 50 days, and the
\* reported status otherwise (opened more than 50 days ago, no opening date,
\* an unparseable one); on the opening day itself it is open or as reported,
\* never forced to closed.
C17_StatusByOpeningDate ==
    st_result # "pending" =>
        LET o == st_opening
        IN  /\ (o.kind = "date" /\ o.days > 0) => st_result = "closed"
            /\ (o.kind = "date" /\ o.days < 0 /\ o.days >= 0 - 50) =>
                   st_result = "open"
            /\ (o.kind = "date" /\ o.days = 0) =>
                   st_result \in {"open", st_original}
            /\ (o.kind # "date" \/ o.days < 0 - 50) => st_result = st_original

-----------------------------------------------------------------------------
(* Properties of disable_resort and the admin handler (SpecAdmin)           *)

\* C12: once disable_resort(id) has returned and while the resort stays
\* disabled, the lookups by id and by slug both give None (404).
C12_DisabledResortIsNotFound ==
    (dis_pc = "returned" /\ resorts_tbl[dis_resort] = "disabled") =>
        /\ DetailAnswer(dis_resort, FALSE) = {}
        /\ DetailAnswer(dis_resort, TRUE) = {}

\* C13: once disable_resort(id) has returned and while the resort stays
\* disabled, neither the full list nor the summary list has an entry for it.
C13_ListsExcludeDisabledResort ==
    (dis_pc = "returned" /\ resorts_tbl[dis_resort] = "disabled") =>
        /\ \A e \in SummaryAnswer : e.id # dis_resort
        /\ \A e \in AllAnswer : e.id # dis_resort

\* The store's tables, without the clock and the cache.
storeRows == <<resorts_tbl, conditions, weathers, webcam_rows, resort_upd, cond_info>>

\* C15 as stated: the commit of disable_resort changes the enabled flag and
\* no other column of any table.
C15_DisableChangesOnlyFlag ==
    [][(dis_pc = "commit" /\ dis_pc' = "invalidate") =>
          /\ resorts_tbl' = [resorts_tbl EXCEPT ![dis_resort] = "disabled"]
          /\ UNCHANGED <<conditions, weathers, webcam_rows, cond_info, resort_upd>>
      ]_vars

\* C15: disable_resort(id) sets the resort's enabled flag to false and, when
\* the flag was true, the resort's updated_at; it removes no row, changes no
\* other column and no other resort, and deletes only the resort's five
\* cache keys.  The data the detail view assembles from the store is
\* unchanged, the summary entry changes in enabled and updated_at only, and
\* setting enabled back to true restores the entry except for updated_at.
C15_DisableChangesFlagAndUpdatedAt ==
    [][/\ (dis_pc = "commit" /\ dis_pc' = "invalidate") =>
             /\ resorts_tbl' = [resorts_tbl EXCEPT ![dis_resort] = "disabled"]
             /\ UNCHANGED <<conditions, weathers, webcam_rows, cond_info, cache>>
             /\ \A q \in Resorts \ {dis_resort} : resort_upd'[q] = resort_upd[q]
             /\ resort_upd'[dis_resort] # resort_upd[dis_resort] =>
                    resorts_tbl[dis_resort] = "enabled"
             /\ ResortData(dis_resort)' = ResortData(dis_resort)
             /\ SummaryEntry(dis_resort)' =
                    [SummaryEntry(dis_resort) EXCEPT
                        !.enabled = FALSE,
                        !.updated_at = resort_upd'[dis_resort]]
       /\ (dis_pc = "invalidate" /\ dis_pc' # "invalidate") =>
             /\ UNCHANGED storeRows
             /\ \A k \in Keys :
                   cache'[k] # cache[k] =>
                       /\ cache'[k] = {}
                       /\ \E i \in 1..Len(DisableKeys(dis_resort)) :
                             DisableKeys(dis_resort)[i] = k
       /\ \A r \in Resorts :
             (resorts_tbl[r] = "disabled" /\ resorts_tbl'[r] = "enabled") =>
                 /\ ResortData(r)' = ResortData(r)
                 /\ SummaryEntry(r)' = [SummaryEntry(r) EXCEPT !.enabled = TRUE]
      ]_vars

\* C15: a saved resort has been disabled through the handler, which answered
\* 200, and enabled again; its updated_at is the time of the disable, later
\* than its latest condition row.
C15_Reached ==
    /\ dis_pc = "returned" /\ adm_resp = "200" /\ dis_resort = 1
    /\ resorts_tbl[1] = "enabled"
    /\ conditions[1] # <<>>
    /\ resort_upd[1] > Latest(conditions[1])

\* C14: during a run of collect_all(enabled_only=True), no condition,
\* weather or webcam row is added for a resort that was disabled in the
\* store before the run started.
C14_DisabledResortIsNotCollected ==
    [][\A r \in Resorts :
          (/\ run_pc = "running"
           /\ selected = Selected(TRUE)
           /\ resorts_tbl[r] = "disabled"
           /\ resort_upd[r] < run_start) =>
              /\ conditions'[r] = conditions[r]
              /\ weathers'[r] = weathers[r]
              /\ webcam_rows'[r] = webcam_rows[r]
      ]_vars

\* The header equals the configured ADMIN_API_KEY.
Authorized == adm_secret \notin {"unset", ""} /\ adm_header = adm_secret

C18_DetailAndSummaryStatusAgree ==
    \A r \in Resorts :
        \A e \in SummaryAnswer :
            e.id = r => \A d \in DetailAnswer(r, FALSE) : d.status = e.status

-----------------------------------------------------------------------------
(* Properties of collect_resort_data (SpecCollect)                          *)

\* The canonical fields of a normalized record.
Canonical(d) ==
    <<d.status, d.new_snow, d.base_depth, d.lifts_open, d.lifts_total,
      d.temperature>>

\* C19: when the primary adapter has given a record, the call returns a
\* record whose canonical fields are the primary's, whatever the
\* supplementary and weather steps did.
C19_PrimaryRecordSurvives ==
    (c_pc = "done" /\ c_primary # {}) =>
        /\ c_ret = "record"
        /\ \A p \in c_primary, d \in c_data : Canonical(d) = Canonical(p)

\* C20: in the returned record the canonical fields are the primary's, the
\* trail counts differ from the primary's only when the primary has no
\* trails_total and are then the supplementary's pair, and a trail count the
\* primary reported (a value other than 0) is kept.
C20_MergeKeepsPrimaryValues ==
    (c_pc = "done" /\ c_ret = "record") =>
        \A p \in c_primary, d \in c_data :
            /\ Canonical(d) = Canonical(p)
            /\ <<d.trails_total, d.trails_open>> # <<p.trails_total, p.trails_open>> =>
                   /\ p.trails_total = 0
                   /\ \A s \in c_secondary :
                         <<d.trails_total, d.trails_open>> =
                             <<s.trails_total, s.trails_open>>
            /\ p.trails_total # 0 => d.trails_total = p.trails_total
            /\ p.trails_open # 0 => d.trails_open = p.trails_open


-----------------------------------------------------------------------------
(* Properties of DataNormalizer.normalize (SpecNormalize)                    *)

\* The MtnPowder payload of the worked example
ExamplePayload ==
    [OperatingStatus |-> "Open", TotalOpenLifts |-> 5, TotalLifts |-> 10,
     TotalOpenTrails |-> 20, TotalTrails |-> 40, StormTotalCM |-> 7,
     TemperatureC |-> Some("-3")]

ExampleApplied == nz_source = "mtnpowder" /\ nz_raw = ExamplePayload

ExampleCounts(d) ==
    /\ d.new_snow = 7
    /\ d.lifts_open = 5 /\ d.lifts_total = 10
    /\ d.trails_open = 20 /\ d.trails_total = 40
    /\ d.temperature = 0 - 3

\* C21 as stated: normalizing the example payload (OperatingStatus "Open",
\* 5 of 10 lifts, 20 of 40 trails, StormTotalCM 7, TemperatureC "-3") yields
\* status partial with new_snow 7, lifts 5/10, trails 20/40, temperature -3.
C21_ExampleIsPartial ==
    ExampleApplied =>
        \A i \in 1..Len(nz_out) :
            The(nz_out[i]).status = "partial" /\ ExampleCounts(The(nz_out[i]))

\* C21 amended: the same payload yields status open (it has "Open" and more
\* than zero open lifts), with new_snow 7, lifts 5/10, trails 20/40 and
\* temperature -3.
C21_ExampleIsOpen ==
    ExampleApplied =>
        \A i \in 1..Len(nz_out) :
            The(nz_out[i]).status = "open" /\ ExampleCounts(The(nz_out[i]))

C21_Reached == ExampleApplied /\ Len(nz_out) >= 1

\* C22: every ResortCondition row written by save_resort_data has
\* lifts_open <= lifts_total, whatever payload either provider sent.
C22_OpenLiftsWithinTotal ==
    \A i \in 1..Len(nz_rows) : nz_rows[i].lifts_open <= nz_rows[i].lifts_total

FirstPoints(series, k) == [i \in 1..Min(k, Len(series)) |-> series[i]]

\* C26: the daily forecast of a normalized weather record holds the first
\* min(8, n) of the n daily points of the payload, and the hourly forecast
\* the first min(80, m) of its m hourly samples.
C26_ForecastLengths ==
    nz_source = "openmeteo" =>
        \A i \in 1..Len(nz_out) :
            /\ The(nz_out[i]).forecast_7d = FirstPoints(nz_raw.daily_time, 8)
            /\ The(nz_out[i]).hourly_forecast = FirstPoints(nz_raw.hourly_time, 80)

\* C27: two applications of normalize to the same descriptor and the same
\* raw payload return equal records, for each source kind.
C27_NormalizeIsDeterministic ==
    \A i \in 1..Len(nz_out) : \A j \in 1..Len(nz_out) : nz_out[i] = nz_out[j]

-----------------------------------------------------------------------------
(* Properties of the webcam rows (SpecWebcams)                               *)

\* C24: a read returns exactly one webcam entry for every webcam_uuid that has
\* rows, the row of greatest timestamp, whatever collections came before,
\* also one whose list names a uuid twice.
C24_OneLatestEntryPerWebcam ==
    [][WebcamRead =>
          \A u \in {wc_rows[i].webcam_uuid : i \in DOMAIN wc_rows} :
              /\ Cardinality({e \in wc_answer' : e.webcam_uuid = u}) = 1
              /\ \A e \in wc_answer' :
                     e.webcam_uuid = u =>
                         e.timestamp = max_timestamp(wc_rows, u)]_vars

-----------------------------------------------------------------------------
(* Properties of save_trails_data (SpecTrails)                               *)

\* C23: save_trails_data replaces atomically.  When a call returns True the
\* trail rows of the resort are exactly the new set and trails:{id} and
\* trails:{slug} are absent; when it returns False the rows and the boundary
\* are what they were before the call.
C23_TrailsReplacedAtomically ==
    [][/\ (tr_pc # "ret_true" /\ tr_pc' = "ret_true") =>
              /\ tr_rows' = tr_data'.trails
              /\ \A k \in TrailKeys : tr_cache'[k] = {}
       /\ (tr_pc' = "ret_false" /\ (tr_pc # "ret_false" \/ tr_calls' # tr_calls)) =>
              /\ tr_rows' = tr_before'.rows
              /\ tr_boundary' = tr_before'.boundary]_vars

-----------------------------------------------------------------------------
(* Properties of the read endpoints (SpecApi)                                *)

\* C25: a read endpoint asked, while the database is unreachable, for a
\* resort (or the list of resorts) that exists in the store answers 500 with
\* an error body, never 404 and never an empty success, whether the database
\* was unreachable at start-up or became so afterwards.
C25_UnreachableDatabaseIs500 ==
    /\ (ap_resp.endpoint = "resort" /\ ap_resp.resort \in ap_tbl /\ ~ap_resp.db_up)
           => (ap_resp.status = 500 /\ ap_resp.body = "error")
    /\ (ap_resp.endpoint = "summary" /\ ap_tbl # {} /\ ~ap_resp.db_up)
           => (ap_resp.status = 500 /\ ap_resp.body = "error")

-----------------------------------------------------------------------------
(* Properties of one resort's task (SpecCollect)                             *)

\* The adapter calls of a resort in the order of collect_resort_data
AdapterOrder(r) ==
    IF HasOnTheSnowUrl(r) /\ DataSource(r) # "onthesnow"
    THEN <<DataSource(r), "onthesnow", "openmeteo">>
    ELSE <<DataSource(r), "openmeteo">>

AdapterCalls == SelectSeq(c_calls, LAMBDA c : c # "save_resort_data")

\* C28: the adapter calls of one resort's task are made in the order primary,
\* supplementary, weather, one after the other; when the primary adapter
\* returns no data there is no supplementary and no weather call, no record
\* is normalized and save_resort_data is not called.
C28_AdaptersInOrder ==
    /\ Len(AdapterCalls) <= Len(AdapterOrder(c_resort))
    /\ AdapterCalls = SubSeq(AdapterOrder(c_resort), 1, Len(AdapterCalls))
    /\ (c_calls # <<>> /\ c_primary = {}) =>
           /\ c_calls = <<DataSource(c_resort)>>
           /\ c_data = {} /\ c_secondary = {}
    /\ \A i \in DOMAIN c_calls : c_calls[i] = "save_resort_data" => i = Len(c_calls)

C28_Reached ==
    /\ c_pc = "finished" /\ c_ret = "None"
    /\ c_calls = <<DataSource(c_resort)>>

-----------------------------------------------------------------------------
(* Properties of the progress report of collect_all (SpecProgress)           *)

\* C29: the completion counter takes the values 1, 2, ... N in this order, one
\* for every finished task as it is taken; the print lock is held only by a
\* thread that is printing, never by one in an HTTP request or a database
\* transaction, and while the run has not returned some thread can take a
\* step: the lock does not deadlock the run.
C29_CounterAndPrintLock ==
    /\ pg_log = [i \in 1..Len(pg_log) |-> i]
    /\ pg_completed = Cardinality(pg_taken)
    /\ \A t \in pg_taken : pg_w[t] = "done"
    /\ Len(pg_log) = IF pg_main \in {"report", "printing"}
                     THEN pg_completed - 1 ELSE pg_completed
    /\ pg_main = "returned" => Len(pg_log) = pg_n
    /\ \A t \in Tasks : (pg_lock = {t}) <=> (pg_w[t] = "printing")
    /\ (pg_lock = {MainThread}) <=> (pg_main = "printing")
    /\ pg_main # "returned" => ENABLED ProgressStep

C29_Reached ==
    /\ pg_main = "returned" /\ pg_n = MaxTasks
    /\ pg_log = [i \in 1..MaxTasks |-> i]

-----------------------------------------------------------------------------
(* Properties of the resort row (SpecUpsert)                                 *)

\* C30: a call of save_resort_data for an id that has a row changes no column
\* of that row but updated_at: a disabled resort stays disabled, and name,
\* coordinates and contact fields stay, whatever the descriptor and the
\* record hold.
C30_ExistingRowOnlyTouched ==
    [][(up_calls' # up_calls /\ up_row # {}) =>
           /\ up_row' # {}
           /\ The(up_row').name = The(up_row).name
           /\ The(up_row').lat = The(up_row).lat
           /\ The(up_row').enabled = The(up_row).enabled
           /\ The(up_row').phone = The(up_row).phone]_vars

\* A save has succeeded on a row that existed and was disabled.
C30_Reached ==
    /\ up_last = [op |-> "save", existed |-> TRUE, failed |-> FALSE]
    /\ up_row # {}
    /\ ~The(up_row).enabled
    /\ The(up_row).updated_at = up_calls

=============================================================================
